---- MODULE Spec2Model ----
(***************************************************************************)
(* Financial projection engine of Kanrikaikei_System (src/utils.ts):       *)
(* monthly revenue recognition, planned/actual labor cost, the 12-month    *)
(* cash-flow projection and the daily cash-flow distribution.              *)
(*                                                                         *)
(* Representation                                                          *)
(*   Date object      [y, m, d, t]  m is the 0-based month (getMonth()),   *)
(*                    t = 0 at local midnight, t = 1 later in the day      *)
(*                    (only `new Date()` yields t = 1)                     *)
(*   "YYYY-MM-DD"     <<y, mm, d>>  mm is the 1-based month of the text;   *)
(*                    the empty string is NoDate                           *)
(*   "YYYY-MM" key    <<y, mm>>                                            *)
(*   money            integers (JPY); fractional intermediate sums are     *)
(*                    carried exactly in hundredths                        *)
(***************************************************************************)
EXTENDS Integers, Sequences, FiniteSets, TLC

VARIABLES
    rvProject,   \* getMonthlyRevenue walk: the project under evaluation
    rvOut,       \* getMonthlyRevenue walk: revenue of window month k at rvOut[k+1]
    ccProject,   \* cost walk: the project under evaluation
    ccEmployees, \* cost walk: the employee collection
    ccWorkLogs,  \* cost walk: the work-log collection
    ccPlanned,   \* cost walk: getProjectMonthlyCost of window month k at [k+1]
    ccActual,    \* cost walk: getProjectActualCost of window month k at [k+1]
    gpInput,     \* generateProjections: [projects, employees, workLogs, settings,
                 \*   termStart], fixed during the call, and the system clock
                 \*   as its reads will see it
    gpReads,     \* number of `new Date()` reads of the clock made so far
    gpReturned,  \* generateProjections: the array the previous call returned,
                 \*   <<>> during the first call
    gpCash,      \* generateProjections: currentCash
    gpData,      \* generateProjections: data, the records pushed so far
    gpCost,      \* generateProjections: the local `cost` of each iteration so far
    gpMetrics,   \* Analytics projectMetrics: the list computed for the term
    gpDaily,     \* generateDailyCashFlow: [k, initialBalance, rows] of the last call
    pdIn,        \* payment-date walk: [year, month, delay, payDay] of the call
    pdOut,       \* payment-date walk: the Date returned, <<>> before the call
    pvState,     \* AppProvider: the React state [employees, projects, workLogs,
                 \*   settings, currentTerm, isLoaded] after the setter calls
    pvRender,    \* AppProvider: the state the latest render closed over, read by
                 \*   the handlers and effects of that render
    pvEffects,   \* AppProvider: the effects of the latest render still to run
    pvDirty,     \* AppProvider: a setter was called since the latest render
    pvStorage,   \* localStorage[STORAGE_KEY]: <<>> (null) or the stored text
    pvTrace      \* AppProvider: [op, arg] of the latest handler call, the number
                 \*   of handler calls and of setItem calls, the text found at
                 \*   mount, the value of the latest getInitialTerm() call

vars == <<rvProject, rvOut, ccProject, ccEmployees, ccWorkLogs, ccPlanned, ccActual,
          gpInput, gpReads, gpReturned, gpCash, gpData, gpCost, gpMetrics, gpDaily,
          pdIn, pdOut,
          pvState, pvRender, pvEffects, pvDirty, pvStorage, pvTrace>>

gpVars == <<gpInput, gpReads, gpReturned, gpCash, gpData, gpCost, gpMetrics, gpDaily>>

rvVars == <<rvProject, rvOut>>
pdVars == <<pdIn, pdOut>>
pvVars == <<pvState, pvRender, pvEffects, pvDirty, pvStorage, pvTrace>>
ccVars == <<ccProject, ccEmployees, ccWorkLogs, ccPlanned, ccActual>>

---------------------------------------------------------------------------
(* Calendar: the behaviour of the JavaScript Date constructor and getters. *)

NoDate == <<>>

IsLeap(y) == (y % 4 = 0 /\ y % 100 # 0) \/ (y % 400 = 0)

\* new Date(year, month + 1, 0).getDate()
getTotalDays(year, month) ==
    IF month = 1 THEN (IF IsLeap(year) THEN 29 ELSE 28)
    ELSE IF month \in {3, 5, 8, 10} THEN 30 ELSE 31

\* Day overflow/underflow of the Date constructor, month already in 0..11.
RECURSIVE RollDay(_, _, _)
RollDay(y, m, d) ==
    IF d < 1
    THEN LET py == IF m = 0 THEN y - 1 ELSE y
             pm == IF m = 0 THEN 11 ELSE m - 1
         IN  RollDay(py, pm, d + getTotalDays(py, pm))
    ELSE IF d > getTotalDays(y, m)
    THEN LET ny == IF m = 11 THEN y + 1 ELSE y
             nm == IF m = 11 THEN 0 ELSE m + 1
         IN  RollDay(ny, nm, d - getTotalDays(y, m))
    ELSE [y |-> y, m |-> m, d |-> d, t |-> 0]

\* new Date(y, m, d): month and day overflow are normalised, time is 00:00.
NewDate(y, m, d) == RollDay(y + (m \div 12), m % 12, d)

\* Date comparison (<, <=, >, >=) compares the instants.
DateNum(D) == ((D.y * 12 + D.m) * 32 + D.d) * 2 + D.t

\* const [y, m, d] = dateStr.split('-').map(Number); new Date(y, m - 1, d)
ParseYMD(dateStr) == NewDate(dateStr[1], dateStr[2] - 1, dateStr[3])

\* parseLocalDate: the empty string yields `new Date()`, the current instant.
parseLocalDate(dateStr, now) ==
    IF dateStr = NoDate THEN now ELSE ParseYMD(dateStr)

\* The n-th read of the system clock (n = 0 is the first): the clock shows
\* `first` to the reads before read number `from` and `next` from then on.
Now(clock, n) == IF n < clock.from THEN clock.first ELSE clock.next

\* `${year}-${String(month + 1).padStart(2, '0')}`
MonthKey(year, month) == <<year, month + 1>>

\* year * 12 + month
MonthIndex(year, month) == year * 12 + month

\* Accumulation `x += seq[i]` for i = lo..hi.
RECURSIVE SumRange(_, _, _)
SumRange(seq, lo, hi) ==
    IF lo > hi THEN 0 ELSE seq[lo] + SumRange(seq, lo + 1, hi)

\* Accumulation over a whole collection.
SumAll(seq) == SumRange(seq, 1, Len(seq))

---------------------------------------------------------------------------
(* IEEE-754 double arithmetic of flowAmount * (ratio / 100).               *)

\* Every flow amount any initial state of this module draws.
ModelAmounts == {0, 1, 7, 10, 100, 10000, 1000001, 6000000}

\* The pairs <<a, r>>, a in ModelAmounts and r in 0..100, for which a * r is
\* a multiple of 100 but the double product a * (r / 100) lies just below the
\* integer a * r / 100 (the double nearest r / 100 is below r / 100 and the
\* product does not round back up): 100 * (29 / 100) = 28.999999999999996.
\* For every other pair of that domain the floor of the double product is
\* the floor of the exact quotient.
RoundedBelow ==
    { <<100, 29>>, <<100, 57>>, <<100, 58>>,
      <<10000, 57>>, <<10000, 69>>,
      <<6000000, 29>>, <<6000000, 57>>, <<6000000, 58>>, <<6000000, 69>> }

\* The triples <<a, q, rest100>> for which Math.floor((a * (q / 100) + rest) * 1.1)
\* is one below floor(1.1 * (a * q / 100 + rest)), rest = rest100 / 100 being
\* the other inflows accumulated into the same sum: 10000 * (57 / 100) is
\* 5699.999999999999, and so is 5699.999999999999 * 1.1 = 6269.999999999999
\* and (5699.999999999999 + 400) * 1.1 = 6709.999999999999.  For every other
\* payment and month sum of the modelled projects the doubles give the floor
\* of the exact value (a sum of 8192 or more rounds to the integer).
MarkupRoundedBelow == { <<10000, 57, 0>>, <<10000, 57, 40000>> }

\* Math.floor(project.flowAmount * (ratio / 100))
startAmount(flowAmount, ratio) ==
    LET exact == (flowAmount * ratio) \div 100
    IN  IF <<flowAmount, ratio>> \in RoundedBelow THEN exact - 1 ELSE exact

\* JavaScript a % n for n > 0: the remainder takes the sign of the dividend.
JsRem(a, n) == IF a >= 0 THEN a % n ELSE 0 - ((0 - a) % n)

---------------------------------------------------------------------------
(* Revenue engine: getMonthlyRevenue.                                      *)

\* Variant of MilestoneRevenue whose end portion is floored from the
\* complementary ratio instead of being the remainder of the start portion.
MilestoneRevenue_EndByRatio(project, year, month) ==
    LET s == ParseYMD(project.flowStartDate)
        e == ParseYMD(project.flowEndDate)
        ratio == project.billingConfig.flowStartRatio
        startPortion ==
            IF s.y = year /\ s.m = month /\ project.billingConfig.flowSplit
            THEN startAmount(project.flowAmount, ratio)
            ELSE 0
        endPortion ==
            IF e.y = year /\ e.m = month
            THEN IF project.billingConfig.flowSplit
                 THEN (project.flowAmount * (100 - ratio)) \div 100
                 ELSE project.flowAmount
            ELSE 0
    IN  startPortion + endPortion

\* Milestone (billing basis): start portion and end portion.
MilestoneRevenue(project, year, month) ==
    LET s == ParseYMD(project.flowStartDate)
        e == ParseYMD(project.flowEndDate)
        ratio == project.billingConfig.flowStartRatio
        startPortion ==
            IF s.y = year /\ s.m = month /\ project.billingConfig.flowSplit
            THEN startAmount(project.flowAmount, ratio)
            ELSE 0
        endPortion ==
            IF e.y = year /\ e.m = month
            THEN IF project.billingConfig.flowSplit
                 THEN project.flowAmount - startAmount(project.flowAmount, ratio)
                 ELSE project.flowAmount
            ELSE 0
    IN  startPortion + endPortion

\* Variant of DurationShare that never adds the remainder.
DurationShare_NoRemainder(flowAmount, totalMonths, isLast) ==
    flowAmount \div totalMonths

\* baseAmount, plus the remainder in the last month
DurationShare(flowAmount, totalMonths, isLast) ==
    LET baseAmount == flowAmount \div totalMonths
        remainder == JsRem(flowAmount, totalMonths)
    IN  IF isLast THEN baseAmount + remainder ELSE baseAmount

\* Variant of DurationRevenue that counts the months exclusively (no + 1).
DurationRevenue_ExclusiveCount(project, year, month) ==
    LET s == ParseYMD(project.flowStartDate)
        e == ParseYMD(project.flowEndDate)
        startMonthIndex == MonthIndex(s.y, s.m)
        endMonthIndex == MonthIndex(e.y, e.m)
        currentMonthIndex == MonthIndex(year, month)
        totalMonths == endMonthIndex - startMonthIndex
    IN  IF currentMonthIndex >= startMonthIndex /\ currentMonthIndex <= endMonthIndex
           /\ totalMonths > 0
        THEN DurationShare(project.flowAmount, totalMonths,
                           currentMonthIndex = endMonthIndex)
        ELSE 0

\* Duration basis (monthly leveling) over the months touched by the period.
DurationRevenue(project, year, month) ==
    LET s == ParseYMD(project.flowStartDate)
        e == ParseYMD(project.flowEndDate)
        startMonthIndex == MonthIndex(s.y, s.m)
        endMonthIndex == MonthIndex(e.y, e.m)
        currentMonthIndex == MonthIndex(year, month)
        totalMonths == endMonthIndex - startMonthIndex + 1
    IN  IF currentMonthIndex >= startMonthIndex /\ currentMonthIndex <= endMonthIndex
           /\ totalMonths > 0
        THEN DurationShare(project.flowAmount, totalMonths,
                           currentMonthIndex = endMonthIndex)
        ELSE 0

\* 1. Flow revenue
FlowRevenue(project, year, month) ==
    IF project.useFlow /\ project.flowStartDate # NoDate /\ project.flowEndDate # NoDate
    THEN IF project.revenueMethod = "Milestone"
         THEN MilestoneRevenue(project, year, month)
         ELSE DurationRevenue(project, year, month)
    ELSE 0

\* Variant of StockActive that compares with the first day of the month.
StockActive_FromMonthStart(stockStartDate, year, month) ==
    DateNum(ParseYMD(stockStartDate)) <= DateNum(NewDate(year, month, 1))

\* s <= mEnd, mEnd = new Date(year, month + 1, 0)
StockActive(stockStartDate, year, month) ==
    DateNum(ParseYMD(stockStartDate)) <= DateNum(NewDate(year, month + 1, 0))

\* Variant of StockRevenue that does not look at the useStock flag.
StockRevenue_IgnoringFlag(project, year, month) ==
    IF project.stockStartDate # NoDate
       /\ StockActive(project.stockStartDate, year, month)
    THEN project.stockAmount
    ELSE 0

\* 2. Stock revenue
StockRevenue(project, year, month) ==
    IF project.useStock /\ project.stockStartDate # NoDate
       /\ StockActive(project.stockStartDate, year, month)
    THEN project.stockAmount
    ELSE 0

\* 3. Time charge: the amount stored under the month key, if any
TimeChargeRevenue(project, year, month) ==
    IF project.useTimeCharge /\ MonthKey(year, month) \in DOMAIN project.timeChargePrices
    THEN project.timeChargePrices[MonthKey(year, month)]
    ELSE 0

\* getMonthlyRevenue(project, date); the final Math.floor acts on an integer.
getMonthlyRevenue(project, date) ==
    FlowRevenue(project, date.y, date.m)
    + StockRevenue(project, date.y, date.m)
    + TimeChargeRevenue(project, date.y, date.m)

---------------------------------------------------------------------------
(* Cost engine: getEmployeeMonthlyData, getProjectMonthlyCost,             *)
(* getProjectActualCost.                                                   *)

\* The per-month override when one is stored, the defaults otherwise.
getEmployeeMonthlyData(employee, year, month) ==
    LET key == MonthKey(year, month) IN
    IF key \in DOMAIN employee.monthlyData
    THEN [cost |-> employee.monthlyData[key].cost,
          monthlyHours |-> employee.monthlyData[key].monthlyHours]
    ELSE [cost |-> employee.defaultMonthlyCost,
          monthlyHours |-> employee.defaultMonthlyHours]

\* employees.find(e => e.id === id): index of the first match, 0 when none.
FindEmployee(employees, id) ==
    IF \E i \in 1..Len(employees) : employees[i].id = id
    THEN CHOOSE i \in 1..Len(employees) :
            /\ employees[i].id = id
            /\ \A j \in 1..(i - 1) : employees[j].id # id
    ELSE 0

\* Variant of CostGated without the test against the flow end date.
CostGated_NoEndCheck(project, year, month) ==
    LET mEnd == NewDate(year, month + 1, 0) IN
    IF project.useFlow /\ project.flowStartDate # NoDate /\ project.flowEndDate # NoDate
    THEN DateNum(mEnd) < DateNum(ParseYMD(project.flowStartDate))
    ELSE IF ~project.useFlow /\ project.useStock /\ project.stockStartDate # NoDate
    THEN DateNum(mEnd) < DateNum(ParseYMD(project.stockStartDate))
    ELSE ~project.useFlow /\ ~project.useStock /\ ~project.useTimeCharge

\* Cost restriction: the early `return 0` branches of getProjectMonthlyCost.
CostGated(project, year, month) ==
    LET mStart == NewDate(year, month, 1)
        mEnd == NewDate(year, month + 1, 0)
    IN  IF project.useFlow /\ project.flowStartDate # NoDate
           /\ project.flowEndDate # NoDate
        THEN \/ DateNum(mEnd) < DateNum(ParseYMD(project.flowStartDate))
             \/ DateNum(mStart) > DateNum(ParseYMD(project.flowEndDate))
        ELSE IF ~project.useFlow /\ project.useStock /\ project.stockStartDate # NoDate
        THEN DateNum(mEnd) < DateNum(ParseYMD(project.stockStartDate))
        ELSE ~project.useFlow /\ ~project.useStock /\ ~project.useTimeCharge

\* The triples <<empCost, utilizationRate, rest100>> for which the double
\* empCost * (utilizationRate / 100) + rest lies just below its exact value,
\* rest = rest100 / 100 being the other assignments' sum: 600000 * (57 / 100)
\* is 341999.99999999994.  For every other assignment list of this module
\* the doubles give the exact sum (the rates 0, 25, 50, 75, 100 are binary
\* fractions of 100).
CostRoundedBelow == { <<600000, 57, 0>> }

\* The tuples <<actualHours, empCost, monthlyHours, rest>> for which the
\* double actualHours * (empCost / monthlyHours) + rest lies just below its
\* exact value: 600000 / 140 is 4285.714285714285 and 7 times that is
\* 29999.999999999996.  For every other work log of this module the hourly
\* rate is a binary fraction and the doubles give the exact sum.
HourlyRoundedBelow == { <<7, 600000, 140, 0>> }

\* Sum over assignments 1..n of empCost * (utilizationRate / 100), carried in
\* hundredths as the exact value; an assignment whose employee is not found
\* adds nothing.
RECURSIVE AssignedCost100(_, _, _, _, _)
AssignedCost100(assignments, n, employees, year, month) ==
    IF n = 0 THEN 0
    ELSE LET assign == assignments[n]
             i == FindEmployee(employees, assign.employeeId)
             term == IF i = 0 THEN 0
                     ELSE getEmployeeMonthlyData(employees[i], year, month).cost
                            * assign.utilizationRate
         IN  AssignedCost100(assignments, n - 1, employees, year, month) + term

\* The accumulated sum s100 holds an assignment whose double product lies
\* below the exact value and keeps the sum below it.
ShortAssigned(assignments, employees, year, month, s100) ==
    \E n \in 1..Len(assignments) :
        LET i == FindEmployee(employees, assignments[n].employeeId)
            c == getEmployeeMonthlyData(employees[i], year, month).cost
            r == assignments[n].utilizationRate
        IN  \E t \in CostRoundedBelow :
                t[2] = r /\ i # 0 /\ t[1] = c /\ t[3] = s100 - c * r

\* getProjectMonthlyCost: 0 when gated, else Math.floor of the sum.
getProjectMonthlyCost(project, employees, year, month) ==
    IF CostGated(project, year, month) THEN 0
    ELSE LET s100 == AssignedCost100(project.assignments, Len(project.assignments),
                                     employees, year, month)
         IN  s100 \div 100
             - (IF ShortAssigned(project.assignments, employees, year, month, s100)
                THEN 1 ELSE 0)

RECURSIVE Gcd(_, _)
Gcd(a, b) == IF b = 0 THEN a ELSE Gcd(b, a % b)

\* Exact fractions <<numerator, denominator>>, denominator > 0.
RatAdd(x, y) ==
    LET n == x[1] * y[2] + y[1] * x[2]
        d == x[2] * y[2]
        g == Gcd(d, IF n >= 0 THEN n ELSE 0 - n)
    IN  <<n \div g, d \div g>>

\* The work logs getProjectActualCost keeps: this project's, week start in
\* the target month (every work log of this module has a week-start date).
IsTargetLog(l, project, year, month) ==
    /\ l.projectId = project.id
    /\ ParseYMD(l.weekStartDate).y = year
    /\ ParseYMD(l.weekStartDate).m = month

\* Sum over work logs 1..n of actualHours * (empCost / monthlyHours), the
\* rate being 0 when monthlyHours is 0, as an exact fraction.
RECURSIVE LoggedCost(_, _, _, _, _, _)
LoggedCost(workLogs, n, project, employees, year, month) ==
    IF n = 0 THEN <<0, 1>>
    ELSE LET log == workLogs[n]
             i == FindEmployee(employees, log.employeeId)
             data == getEmployeeMonthlyData(employees[i], year, month)
             term == IF ~IsTargetLog(log, project, year, month) \/ i = 0
                     THEN <<0, 1>>
                     ELSE IF data.monthlyHours > 0
                     THEN <<log.actualHours * data.cost, data.monthlyHours>>
                     ELSE <<0, 1>>
         IN  RatAdd(LoggedCost(workLogs, n - 1, project, employees, year, month), term)

\* The accumulated sum c (an exact fraction) holds a work log whose double
\* product lies below the exact value and keeps the sum below it.
ShortLogged(workLogs, project, employees, year, month, c) ==
    \E n \in 1..Len(workLogs) :
        LET log == workLogs[n]
            i == FindEmployee(employees, log.employeeId)
            data == getEmployeeMonthlyData(employees[i], year, month)
        IN  \E t \in HourlyRoundedBelow :
                /\ t[1] = log.actualHours
                /\ IsTargetLog(log, project, year, month) /\ i # 0
                /\ t[2] = data.cost /\ t[3] = data.monthlyHours
                /\ data.monthlyHours > 0
                /\ (log.actualHours * data.cost) % data.monthlyHours = 0
                /\ c[2] = 1
                /\ t[4] = c[1] - (log.actualHours * data.cost) \div data.monthlyHours

\* getProjectActualCost: Math.floor of the logged hours times hourly rates.
getProjectActualCost(project, employees, workLogs, year, month) ==
    LET c == LoggedCost(workLogs, Len(workLogs), project, employees, year, month)
    IN  c[1] \div c[2]
        - (IF ShortLogged(workLogs, project, employees, year, month, c) THEN 1 ELSE 0)

---------------------------------------------------------------------------
(* Payment / cash engine: getPaymentDate and the loop body of              *)
(* generateProjections.                                                    *)

\* Variant of getPaymentDate whose end-of-month day is the first day of the
\* following month (day 1 instead of day 0).
getPaymentDate_NextMonthStart(year, month, delay, day) ==
    LET targetDate == NewDate(year, month + delay, 1) IN
    IF day = 99
    THEN NewDate(targetDate.y, targetDate.m + 1, 1)
    ELSE NewDate(targetDate.y, targetDate.m, day)

\* Variant of getPaymentDate that clamps the day to the length of the month.
getPaymentDate_Clamped(year, month, delay, day) ==
    LET targetDate == NewDate(year, month + delay, 1)
        last == getTotalDays(targetDate.y, targetDate.m)
    IN  IF day = 99 \/ day > last
        THEN NewDate(targetDate.y, targetDate.m + 1, 0)
        ELSE NewDate(targetDate.y, targetDate.m, day)

\* payDay 99: the last day of the month `delay` months later; any other day
\* is set with setDate(day), which rolls over into the following month.
getPaymentDate(year, month, delay, day) ==
    LET targetDate == NewDate(year, month + delay, 1) IN
    IF day = 99
    THEN NewDate(targetDate.y, targetDate.m + 1, 0)
    ELSE NewDate(targetDate.y, targetDate.m, day)

\* x || 99 for a pay-day
OrEndOfMonth(day) == IF day = 0 THEN 99 ELSE day

\* new Date(today.getFullYear(), today.getMonth(), 1)
currentMonthStart(today) == NewDate(today.y, today.m, 1)

\* Variant of isPast that also counts the current month as past.
isPast_IncludingCurrent(d, today) ==
    DateNum(d) <= DateNum(currentMonthStart(today))

\* isPast = d < currentMonthStart
isPast(d, today) == DateNum(d) < DateNum(currentMonthStart(today))

\* Labor cost of one month over all projects: actuals when past, plan
\* otherwise.
LaborCost(projects, employees, workLogs, year, month, past) ==
    SumAll([j \in 1..Len(projects) |->
              IF past
              THEN getProjectActualCost(projects[j], employees, workLogs, year, month)
              ELSE getProjectMonthlyCost(projects[j], employees, year, month)])

\* prevMonth = new Date(year, month - 1, 1)
prevMonth(year, month) == NewDate(year, month - 1, 1)

\* paidCost: the labor cost of the previous month, actual or plan by the
\* previous month's own classification.
paidCost(projects, employees, workLogs, year, month, today) ==
    LET pm == prevMonth(year, month) IN
    LaborCost(projects, employees, workLogs, pm.y, pm.m, isPast(pm, today))

\* The stock/flow split of project p reads the clock: parseLocalDate is
\* called with an empty stockStartDate.
ReadsClock(p) == p.useStock /\ p.useFlow /\ p.stockStartDate = NoDate

\* Number of clock reads the split makes for the projects before the j-th.
StockReads(projects, j) ==
    Cardinality({ k \in 1..(j - 1) : ReadsClock(projects[k]) })

\* Clock reads of one loop iteration of generateProjections: `today`, then
\* the reads of the split.
ReadsOfIteration(projects) == 1 + StockReads(projects, Len(projects) + 1)

\* The stock share sPart of one project's revenue `rev`, `today` being the
\* instant parseLocalDate reads for an empty stockStartDate.
StockPart(p, rev, year, month, today) ==
    LET initial == IF p.useStock THEN p.stockAmount ELSE 0
        capped == IF rev < initial THEN rev ELSE initial
    IN  IF p.useStock /\ ~p.useFlow THEN rev
        ELSE IF p.useStock /\ p.useFlow
        THEN IF DateNum(parseLocalDate(p.stockStartDate, today))
                  <= DateNum(NewDate(year, month + 1, 0))
             THEN p.stockAmount
             ELSE 0
        ELSE capped

\* Flow payments of one project falling in (year, month), in hundredths:
\* flowAmount * ratio with ratio = flowStartRatio / 100 resp.
\* (100 - flowStartRatio) / 100, as exact values; MonthlyCashIn accounts for
\* the payments whose double lies below the exact value.
FlowStartPay100(p, year, month) ==
    LET b == p.billingConfig
        sPay == LET s == ParseYMD(p.flowStartDate) IN
                getPaymentDate(s.y, s.m, b.flowStartDelay, OrEndOfMonth(b.flowStartPayDay))
    IN  IF p.flowStartDate # NoDate /\ sPay.y = year /\ sPay.m = month /\ b.flowSplit
        THEN p.flowAmount * b.flowStartRatio
        ELSE 0

FlowEndPay100(p, year, month) ==
    LET b == p.billingConfig
        ePay == LET e == ParseYMD(p.flowEndDate) IN
                getPaymentDate(e.y, e.m, b.flowEndDelay, OrEndOfMonth(b.flowEndPayDay))
    IN  IF p.flowEndDate # NoDate /\ ePay.y = year /\ ePay.m = month
        THEN IF b.flowSplit
             THEN p.flowAmount * (100 - b.flowStartRatio)
             ELSE p.flowAmount * 100
        ELSE 0

FlowCashIn100(p, year, month) ==
    IF p.useFlow
    THEN FlowStartPay100(p, year, month) + FlowEndPay100(p, year, month)
    ELSE 0

\* Stock and time-charge payment of one project in (year, month): the
\* revenue recognised stockDelay months earlier, when positive.
StockCashIn(p, year, month) ==
    IF (p.useStock /\ p.stockStartDate # NoDate) \/ p.useTimeCharge
    THEN LET rev == getMonthlyRevenue(p, NewDate(year, month - p.billingConfig.stockDelay, 1))
         IN  IF rev > 0 THEN rev ELSE 0
    ELSE 0

\* Math.floor(x * 1.1) for x given in hundredths.
FloorTax100(x100) == 11 * (x100 \div 1000) + (11 * (x100 % 1000)) \div 1000

\* The month's inflow s100 holds a split payment whose double lies below the
\* exact value and keeps the marked-up sum below it.
ShortSum(projects, year, month, s100) ==
    \E j \in 1..Len(projects) :
        LET p == projects[j]
            b == p.billingConfig
            s == FlowStartPay100(p, year, month)
            e == FlowEndPay100(p, year, month)
        IN  /\ p.useFlow /\ b.flowSplit
            /\ \/ /\ s > 0
                  /\ <<p.flowAmount, b.flowStartRatio, s100 - s>> \in MarkupRoundedBelow
               \/ /\ e > 0
                  /\ <<p.flowAmount, 100 - b.flowStartRatio, s100 - e>> \in MarkupRoundedBelow

\* cashIn of the month: Math.floor(cashIn * 1.1) over the accumulated flow
\* and stock / time-charge payments of all projects.
MonthlyCashIn(projects, year, month) ==
    LET s100 == SumAll([j \in 1..Len(projects) |->
                          FlowCashIn100(projects[j], year, month)
                          + 100 * StockCashIn(projects[j], year, month)])
    IN  FloorTax100(s100) - (IF ShortSum(projects, year, month, s100) THEN 1 ELSE 0)

\* parseLocalDate(`${key}-01`) for a "YYYY-MM" key
ParseMonthKey(key) == ParseYMD(<<key[1], key[2], 1>>)

\* Variant of ItemOccurs whose recurrence window excludes the periodEnd month.
ItemOccurs_ExclusiveEnd(item, d) ==
    IF item.isRecurring
    THEN /\ item.periodStart # NoDate
         /\ DateNum(d) >= DateNum(ParseMonthKey(item.periodStart))
         /\ DateNum(d) < DateNum(IF item.periodEnd # NoDate
                                 THEN ParseMonthKey(item.periodEnd)
                                 ELSE NewDate(9999, 11, 31))
    ELSE LET pDate == IF item.paymentDate # NoDate THEN ParseYMD(item.paymentDate)
                      ELSE ParseMonthKey(item.targetMonth)
         IN  /\ (item.paymentDate # NoDate \/ item.targetMonth # NoDate)
             /\ pDate.y = d.y /\ pDate.m = d.m

\* Whether a ledger item occurs in the month whose first day is d.
ItemOccurs(item, d) ==
    IF item.isRecurring
    THEN /\ item.periodStart # NoDate
         /\ DateNum(d) >= DateNum(ParseMonthKey(item.periodStart))
         /\ DateNum(d) <= DateNum(IF item.periodEnd # NoDate
                                  THEN ParseMonthKey(item.periodEnd)
                                  ELSE NewDate(9999, 11, 31))
    ELSE LET pDate == IF item.paymentDate # NoDate THEN ParseYMD(item.paymentDate)
                      ELSE ParseMonthKey(item.targetMonth)
         IN  /\ (item.paymentDate # NoDate \/ item.targetMonth # NoDate)
             /\ pDate.y = d.y /\ pDate.m = d.m

\* Variant of Bucket that books the categories it does not know as
\* investments instead of SG&A.
Bucket_UnknownAsInvestment(category) ==
    IF category = "OperatingExpense" THEN "sga"
    ELSE IF category \in {"Tax", "LoanRepayment"} THEN "taxRepayment"
    ELSE IF category = "LoanIn" THEN "financialIn"
    ELSE "investment"

\* The bucket a category is added to.
Bucket(category) ==
    IF category = "OperatingExpense" THEN "sga"
    ELSE IF category \in {"Tax", "LoanRepayment"} THEN "taxRepayment"
    ELSE IF category = "Investment" THEN "investment"
    ELSE IF category = "LoanIn" THEN "financialIn"
    ELSE "sga"

\* Sum of the amounts of the occurring items of one bucket.
BucketTotal(items, d, bucket) ==
    SumAll([j \in 1..Len(items) |->
              IF ItemOccurs(items[j], d) /\ Bucket(items[j].category) = bucket
              THEN items[j].amount ELSE 0])

\* settings.salesTargets[monthKey] || settings.monthlySalesTarget || 0
Target(settings, year, month) ==
    LET key == MonthKey(year, month) IN
    IF key \in DOMAIN settings.salesTargets /\ settings.salesTargets[key] # 0
    THEN settings.salesTargets[key]
    ELSE settings.monthlySalesTarget

\* Variant of RevenueOf that counts every project whatever its status.
RevenueOf_IgnoringStatus(projects, d, statuses) ==
    SumAll([j \in 1..Len(projects) |-> getMonthlyRevenue(projects[j], d)])

\* Revenue of the month over the projects whose status is in `statuses`.
RevenueOf(projects, d, statuses) ==
    SumAll([j \in 1..Len(projects) |->
              IF projects[j].status \in statuses
              THEN getMonthlyRevenue(projects[j], d) ELSE 0])

AllStatuses == {"PreOrder", "Ordered", "Delivered", "Lost"}

\* Variant of BalanceChange that leaves loan-in items out of the inflow.
BalanceChange_NoFinancialIn(cashIn, financialIn, paid, sga, taxRepayment, investment) ==
    cashIn - (paid + sga + taxRepayment + investment)

\* cashBalanceChange = totalCashIn - totalCashOut
BalanceChange(cashIn, financialIn, paid, sga, taxRepayment, investment) ==
    (cashIn + financialIn) - (paid + sga + taxRepayment + investment)

\* The record generateProjections pushes for the month whose first day is d,
\* given the running balance before the month; the iteration makes the clock
\* reads number `reads` onwards.
ProjectionRecord(projects, employees, workLogs, settings, d, clock, reads, currentCash) ==
    LET year == d.y
        month == d.m
        today == Now(clock, reads)
        revenue == RevenueOf(projects, d, AllStatuses)
        stockRevenue ==
            SumAll([j \in 1..Len(projects) |->
                      StockPart(projects[j], getMonthlyRevenue(projects[j], d),
                                year, month,
                                Now(clock, reads + 1 + StockReads(projects, j)))])
        cashIn == MonthlyCashIn(projects, year, month)
        paid == paidCost(projects, employees, workLogs, year, month, today)
        sga == BucketTotal(settings.cashFlowItems, d, "sga")
        taxRepayment == BucketTotal(settings.cashFlowItems, d, "taxRepayment")
        investment == BucketTotal(settings.cashFlowItems, d, "investment")
        financialIn == BucketTotal(settings.cashFlowItems, d, "financialIn")
        change == BalanceChange(cashIn, financialIn, paid, sga, taxRepayment, investment)
    IN  [month |-> month + 1,
         date |-> d,
         revenue |-> revenue,
         target |-> Target(settings, year, month),
         confirmedRevenue |-> RevenueOf(projects, d, {"Ordered", "Delivered"}),
         potentialRevenue |-> RevenueOf(projects, d, {"PreOrder"}),
         flowRevenue |-> revenue - stockRevenue,
         stockRevenue |-> stockRevenue,
         cost |-> paid,
         sga |-> sga,
         taxRepayment |-> taxRepayment,
         investment |-> investment,
         cashIn |-> cashIn,
         financialIn |-> financialIn,
         totalCashIn |-> cashIn + financialIn,
         totalCashOut |-> paid + sga + taxRepayment + investment,
         cashBalance |-> currentCash + change,
         cashBalanceChange |-> change]

---------------------------------------------------------------------------
(* Daily distribution: generateDailyCashFlow.  A cash event is a pair      *)
(* <<day, amount>>: the key and the addend of one update of dailyChanges;  *)
(* <<0, 0>> stands for an update that is not made.                         *)

NoEvent == <<0, 0>>

\* The flow payments of one project in (year, month), each with its own
\* markup Math.floor(amt * 1.1); a payment of 0 is skipped.
FlowEvents(p, year, month) ==
    LET b == p.billingConfig
        sPay == LET s == ParseYMD(p.flowStartDate) IN
                getPaymentDate(s.y, s.m, b.flowStartDelay, OrEndOfMonth(b.flowStartPayDay))
        ePay == LET e == ParseYMD(p.flowEndDate) IN
                getPaymentDate(e.y, e.m, b.flowEndDelay, OrEndOfMonth(b.flowEndPayDay))
        sAmt100 == IF b.flowSplit THEN p.flowAmount * b.flowStartRatio ELSE 0
        eAmt100 == IF b.flowSplit THEN p.flowAmount * (100 - b.flowStartRatio)
                   ELSE p.flowAmount * 100
    IN  << IF p.useFlow /\ p.flowStartDate # NoDate /\ sPay.y = year /\ sPay.m = month
              /\ sAmt100 > 0
           THEN <<sPay.d, FloorTax100(sAmt100)
                            - (IF <<p.flowAmount, b.flowStartRatio, 0>> \in MarkupRoundedBelow
                               THEN 1 ELSE 0)>>
           ELSE NoEvent,
           IF p.useFlow /\ p.flowEndDate # NoDate /\ ePay.y = year /\ ePay.m = month
              /\ eAmt100 > 0
           THEN <<ePay.d, FloorTax100(eAmt100)
                            - (IF b.flowSplit /\ <<p.flowAmount, 100 - b.flowStartRatio, 0>>
                                                    \in MarkupRoundedBelow
                               THEN 1 ELSE 0)>>
           ELSE NoEvent >>

\* Variant of StockEvent that books the payment whatever month the pay-day
\* lands in.
StockEvent_AnyMonth(p, year, month) ==
    IF (p.useStock /\ p.stockStartDate # NoDate) \/ p.useTimeCharge
    THEN LET delay == p.billingConfig.stockDelay
             payDay == OrEndOfMonth(p.billingConfig.stockPayDay)
             targetRevMonth == NewDate(year, month - delay, 1)
             rev == getMonthlyRevenue(p, targetRevMonth)
             d == getPaymentDate(targetRevMonth.y, targetRevMonth.m, delay, payDay)
         IN  IF rev > 0 THEN <<d.d, FloorTax100(100 * rev)>> ELSE NoEvent
    ELSE NoEvent

\* The stock / time-charge payment of one project: kept only when the
\* pay-day lands inside (year, month).
StockEvent(p, year, month) ==
    IF (p.useStock /\ p.stockStartDate # NoDate) \/ p.useTimeCharge
    THEN LET delay == p.billingConfig.stockDelay
             payDay == OrEndOfMonth(p.billingConfig.stockPayDay)
             targetRevMonth == NewDate(year, month - delay, 1)
             rev == getMonthlyRevenue(p, targetRevMonth)
             d == getPaymentDate(targetRevMonth.y, targetRevMonth.m, delay, payDay)
         IN  IF rev > 0 /\ d.y = year /\ d.m = month
             THEN <<d.d, FloorTax100(100 * rev)>> ELSE NoEvent
    ELSE NoEvent

\* The day a ledger item is booked on: the pay-day of a recurring item (99 is
\* the month's last day, unset is 25), the day of a one-time payment date.
ItemDay(item, year, month) ==
    IF item.isRecurring
    THEN IF item.payDay = 99 THEN getTotalDays(year, month)
         ELSE IF item.payDay = 0 THEN 25 ELSE item.payDay
    ELSE IF item.paymentDate # NoDate THEN ParseYMD(item.paymentDate).d
         ELSE ParseMonthKey(item.targetMonth).d

\* The signed booking of a ledger item occurring in (year, month).
ItemEvent(item, year, month) ==
    IF ItemOccurs(item, NewDate(year, month, 1))
    THEN <<ItemDay(item, year, month),
           IF item.category = "LoanIn" THEN item.amount ELSE 0 - item.amount>>
    ELSE NoEvent

\* projects.forEach(...): the updates of dailyChanges made for projects j..
RECURSIVE ProjectEvents(_, _, _, _)
ProjectEvents(projects, j, year, month) ==
    IF j > Len(projects) THEN <<>>
    ELSE FlowEvents(projects[j], year, month)
         \o <<StockEvent(projects[j], year, month)>>
         \o ProjectEvents(projects, j + 1, year, month)

\* settings.cashFlowItems.forEach(...): the updates made for items j..
RECURSIVE ItemEvents(_, _, _, _)
ItemEvents(items, j, year, month) ==
    IF j > Len(items) THEN <<>>
    ELSE <<ItemEvent(items[j], year, month)>> \o ItemEvents(items, j + 1, year, month)

\* dailyChanges[dd] || 0
DailyChange(events, dd) ==
    SumAll([j \in 1..Len(events) |-> IF events[j][1] = dd THEN events[j][2] ELSE 0])

\* for (d = 1; d <= daysInMonth; d++): one record per day from day d on.
RECURSIVE DailyRows(_, _, _, _)
DailyRows(events, d, daysInMonth, currentBalance) ==
    IF d > daysInMonth THEN <<>>
    ELSE LET change == DailyChange(events, d) IN
         <<[day |-> d, change |-> change, balance |-> currentBalance + change]>>
         \o DailyRows(events, d + 1, daysInMonth, currentBalance + change)

generateDailyCashFlow(date, projects, settings, initialBalance) ==
    DailyRows(ProjectEvents(projects, 1, date.y, date.m)
                \o ItemEvents(settings.cashFlowItems, 1, date.y, date.m),
              1, getTotalDays(date.y, date.m), initialBalance)

---------------------------------------------------------------------------
(* Project values.                                                         *)

DefaultBilling ==
    [flowSplit |-> FALSE, flowStartRatio |-> 0,
     flowStartDelay |-> 0, flowStartPayDay |-> 0,
     flowEndDelay |-> 0, flowEndPayDay |-> 0,
     stockDelay |-> 0, stockPayDay |-> 0]

NoPrices == [k \in {} |-> 0]

\* A flow contract <<useFlow, method, amount, start, end, split, ratio>>,
\* a stock contract <<useStock, amount, start>> and a time-charge contract
\* <<useTimeCharge, prices>> make a project.
MkProject(id, flow, stock, tc) ==
    [id |-> id, status |-> "Ordered",
     useFlow |-> flow[1], revenueMethod |-> flow[2], flowAmount |-> flow[3],
     flowStartDate |-> flow[4], flowEndDate |-> flow[5],
     useStock |-> stock[1], stockAmount |-> stock[2], stockStartDate |-> stock[3],
     useTimeCharge |-> tc[1], timeChargePrices |-> tc[2],
     billingConfig |-> [DefaultBilling EXCEPT !.flowSplit = flow[6],
                                              !.flowStartRatio = flow[7]],
     assignments |-> <<>>]

---------------------------------------------------------------------------
(* Walk of getMonthlyRevenue over a window of consecutive calendar months. *)

\* Number of months of the evaluation window.
WindowLen == 15

\* First month of the evaluation window.
WindowStart == <<2024, 11, 1>>

\* First day of window month k (k = 0 is the month of WindowStart).
WindowDate(k) ==
    LET w == ParseYMD(WindowStart) IN NewDate(w.y, w.m + k, 1)

\* Flow periods <<start, end>>: six months, inside one month, two months
\* across a year end, seven months from a month's last day to a month's first
\* day, the twelve months of a term, one month, and an end before the start.
FlowPeriods ==
    { << <<2025, 1, 1>>,   <<2025, 6, 30>> >>,
      << <<2025, 1, 15>>,  <<2025, 1, 20>> >>,
      << <<2024, 12, 31>>, <<2025, 1, 1>> >>,
      << <<2025, 1, 31>>,  <<2025, 7, 1>> >>,
      << <<2024, 12, 1>>,  <<2025, 11, 30>> >>,
      << <<2025, 2, 28>>,  <<2025, 2, 28>> >>,
      << <<2025, 3, 1>>,   <<2025, 2, 1>> >> }

NoStock == <<FALSE, 0, NoDate>>

StockContracts ==
    { NoStock,
      <<TRUE, 50000, <<2025, 7, 1>> >>,
      <<TRUE, 50000, <<2025, 1, 31>> >>,
      <<TRUE, 50000, NoDate>>,
      <<FALSE, 50000, <<2025, 1, 31>> >> }

NoTimeCharge == <<FALSE, NoPrices>>

TimeChargeContracts ==
    { NoTimeCharge,
      <<TRUE, (<<2025, 2>> :> 300) @@ (<<2025, 7>> :> 0)>>,
      <<FALSE, (<<2025, 2>> :> 300)>> }

\* Duration projects: every amount, period, stock and time-charge contract.
DurationProjects ==
    { MkProject("p1", <<TRUE, "Duration", a, pd[1], pd[2], FALSE, 0>>, st, tc) :
        a \in ModelAmounts, pd \in FlowPeriods,
        st \in StockContracts, tc \in TimeChargeContracts }

\* Milestone projects with split billing: every amount, period and ratio.
MilestoneSplitProjects ==
    { MkProject("p1", <<TRUE, "Milestone", a, pd[1], pd[2], TRUE, r>>, st, NoTimeCharge) :
        a \in ModelAmounts, pd \in FlowPeriods, r \in 0..100,
        st \in {NoStock, <<TRUE, 50000, <<2025, 1, 31>> >>} }

\* Milestone projects billed in one lump (a stored ratio is ignored).
MilestoneLumpProjects ==
    { MkProject("p1", <<TRUE, "Milestone", a, pd[1], pd[2], FALSE, r>>, st, tc) :
        a \in ModelAmounts, pd \in FlowPeriods, r \in {0, 50},
        st \in StockContracts, tc \in TimeChargeContracts }

\* Flow switched off or flow dates missing, amount and method populated.
FlowOffProjects ==
    { MkProject("p1", <<f[1], m, 100, f[2], f[3], TRUE, 50>>, st, tc) :
        f \in { <<FALSE, <<2025, 1, 1>>, <<2025, 6, 30>> >>,
                <<TRUE, NoDate, <<2025, 6, 30>> >>,
                <<TRUE, <<2025, 1, 1>>, NoDate>> },
        m \in {"Duration", "Milestone"},
        st \in StockContracts, tc \in TimeChargeContracts }

RevenueProjects ==
    DurationProjects \cup MilestoneSplitProjects
    \cup MilestoneLumpProjects \cup FlowOffProjects

\* Variables of the walks that a specification does not run.
IdleRevenue == rvProject = "none" /\ rvOut = <<>>
IdleCost ==
    /\ ccProject = "none" /\ ccEmployees = <<>> /\ ccWorkLogs = <<>>
    /\ ccPlanned = <<>> /\ ccActual = <<>>

IdleProjection ==
    /\ gpInput = "none" /\ gpReads = 0 /\ gpReturned = <<>>
    /\ gpCash = 0 /\ gpData = <<>> /\ gpCost = <<>>
    /\ gpMetrics = <<>> /\ gpDaily = <<>>

IdlePayment == pdIn = "none" /\ pdOut = <<>>
IdleProvider ==
    /\ pvState = <<>> /\ pvRender = <<>> /\ pvEffects = <<>>
    /\ pvDirty = FALSE /\ pvStorage = <<>> /\ pvTrace = <<>>

InitRevenue ==
    /\ rvProject \in RevenueProjects
    /\ rvOut = <<>>
    /\ IdleCost
    /\ IdleProjection
    /\ IdlePayment
    /\ IdleProvider

\* One call getMonthlyRevenue(project, d) for the next month of the window.
RevenueStep ==
    /\ Len(rvOut) < WindowLen
    /\ rvOut' = Append(rvOut, getMonthlyRevenue(rvProject, WindowDate(Len(rvOut))))
    /\ UNCHANGED <<rvProject, ccVars, gpVars, pdVars, pvVars>>

NextRevenue == RevenueStep

SpecRevenue == InitRevenue /\ [][NextRevenue]_vars

---------------------------------------------------------------------------
(* Walk of getProjectMonthlyCost and getProjectActualCost over the window. *)

Employee1 ==
    [id |-> "e1", defaultMonthlyCost |-> 600000, defaultMonthlyHours |-> 160,
     monthlyData |-> (<<2025, 2>> :> [cost |-> 0, monthlyHours |-> 160])
                  @@ (<<2025, 3>> :> [cost |-> 480001, monthlyHours |-> 0])]

Employee2 ==
    [id |-> "e2", defaultMonthlyCost |-> 1001, defaultMonthlyHours |-> 8,
     monthlyData |-> [k \in {} |-> 0]]

Employee3 ==
    [id |-> "e3", defaultMonthlyCost |-> 600000, defaultMonthlyHours |-> 140,
     monthlyData |-> [k \in {} |-> 0]]

\* Employee collections: both employees, "e2" deleted, or "e3" in its place.
EmployeeLists == { <<Employee1, Employee2>>, <<Employee1>>, <<Employee1, Employee3>> }

Assign(e, rate) == [employeeId |-> e, utilizationRate |-> rate]

AssignmentLists ==
    { <<>>,
      <<Assign("e1", 50)>>,
      <<Assign("e1", 50), Assign("e2", 25)>>,
      <<Assign("e2", 50), Assign("e2", 50)>>,
      <<Assign("e1", 57)>> }

WorkLog(id, projectId, employeeId, weekStartDate, actualHours) ==
    [id |-> id, projectId |-> projectId, taskId |-> "t1", employeeId |-> employeeId,
     weekStartDate |-> weekStartDate, actualHours |-> actualHours]

\* Work logs of project "p1" in 2025-01, 2025-02, 2025-03 and 2025-04, one
\* of another project and one of an employee that no longer exists.
SampleWorkLogs ==
    << WorkLog("w1", "p1", "e1", <<2025, 1, 6>>, 40),
       WorkLog("w2", "p1", "e2", <<2025, 1, 13>>, 3),
       WorkLog("w3", "p2", "e1", <<2025, 1, 6>>, 10),
       WorkLog("w4", "p1", "e1", <<2025, 2, 3>>, 8),
       WorkLog("w5", "p1", "e9", <<2025, 1, 20>>, 5),
       WorkLog("w6", "p1", "e1", <<2025, 3, 3>>, 8),
       WorkLog("w7", "p1", "e2", <<2025, 3, 3>>, 7),
       WorkLog("w8", "p1", "e3", <<2025, 4, 7>>, 7) >>

WorkLogLists == { <<>>, SampleWorkLogs }

CostFlowContracts ==
    { <<TRUE, "Duration", 100, pd[1], pd[2], FALSE, 0>> : pd \in FlowPeriods }
    \cup { <<FALSE, "Duration", 100, <<2025, 1, 1>>, <<2025, 6, 30>>, FALSE, 0>>,
           <<TRUE, "Duration", 100, NoDate, <<2025, 6, 30>>, FALSE, 0>>,
           <<TRUE, "Milestone", 100, <<2025, 1, 1>>, <<2025, 6, 30>>, TRUE, 50>> }

CostProjects ==
    { [MkProject("p1", f, st, tc) EXCEPT !.assignments = as] :
        f \in CostFlowContracts, st \in StockContracts,
        tc \in {NoTimeCharge, <<TRUE, (<<2025, 2>> :> 300)>>},
        as \in AssignmentLists }

InitCost ==
    /\ ccProject \in CostProjects
    /\ ccEmployees \in EmployeeLists
    /\ ccWorkLogs \in WorkLogLists
    /\ ccPlanned = <<>>
    /\ ccActual = <<>>
    /\ IdleRevenue
    /\ IdleProjection
    /\ IdlePayment
    /\ IdleProvider

\* One call getProjectMonthlyCost(project, employees, year, month).
PlannedCostStep ==
    /\ Len(ccPlanned) < WindowLen
    /\ Len(ccPlanned) = Len(ccActual)
    /\ LET d == WindowDate(Len(ccPlanned)) IN
       ccPlanned' = Append(ccPlanned,
                           getProjectMonthlyCost(ccProject, ccEmployees, d.y, d.m))
    /\ UNCHANGED <<ccProject, ccEmployees, ccWorkLogs, ccActual, rvVars, gpVars, pdVars, pvVars>>

\* One call getProjectActualCost(project, employees, workLogs, year, month).
ActualCostStep ==
    /\ Len(ccActual) < Len(ccPlanned)
    /\ LET d == WindowDate(Len(ccActual)) IN
       ccActual' = Append(ccActual,
                          getProjectActualCost(ccProject, ccEmployees, ccWorkLogs,
                                               d.y, d.m))
    /\ UNCHANGED <<ccProject, ccEmployees, ccWorkLogs, ccPlanned, rvVars, gpVars, pdVars, pvVars>>

NextCost == PlannedCostStep \/ ActualCostStep

SpecCost == InitCost /\ [][NextCost]_vars

---------------------------------------------------------------------------
(* Walk of getPaymentDate as its callers call it.                          *)

\* Largest delay in months of a call.
MaxDelay == 2

\* Pay-days: unset (0), days of the month and 99 (end of month).
PayDays == {0, 1, 10, 28, 29, 30, 31, 99}

\* The years of the month a payment is counted from (2024 is a leap year).
PaymentYears == {2024, 2025}

InitPayment ==
    /\ pdIn \in [year : PaymentYears, month : 0..11, delay : 0..MaxDelay,
                 payDay : PayDays]
    /\ pdOut = <<>>
    /\ IdleRevenue
    /\ IdleCost
    /\ IdleProjection
    /\ IdleProvider

\* getPaymentDate(year, month, delay || 0, payDay || 99)
PaymentDateCall ==
    /\ pdOut = <<>>
    /\ pdOut' = getPaymentDate(pdIn.year, pdIn.month, pdIn.delay,
                               OrEndOfMonth(pdIn.payDay))
    /\ UNCHANGED <<pdIn, rvVars, ccVars, gpVars, pvVars>>

NextPayment == PaymentDateCall

SpecPayment == InitPayment /\ [][NextPayment]_vars

---------------------------------------------------------------------------
(* generateProjections, one loop iteration per step, then calls of         *)
(* generateDailyCashFlow for months of the same term.                      *)

\* Largest number of projects in the collection.
MaxProjects == 2

\* Number of loop iterations: for (let i = 0; i < 12; i++)
TermMonths == 12

Billing(startDelay, startPayDay, endDelay, endPayDay, stockDelay, stockPayDay) ==
    [flowStartDelay |-> startDelay, flowStartPayDay |-> startPayDay,
     flowEndDelay |-> endDelay, flowEndPayDay |-> endPayDay,
     stockDelay |-> stockDelay, stockPayDay |-> stockPayDay]

\* A project with its status, billing delays / pay-days and assignments.
With(p, status, billing, assignments) ==
    [p EXCEPT !.status = status, !.assignments = assignments,
              !.billingConfig = [f \in DOMAIN p.billingConfig |->
                                   IF f \in DOMAIN billing THEN billing[f]
                                   ELSE p.billingConfig[f]]]

\* The projects a projection input is drawn from.
\*  1 flow only, 6,000,000, Milestone 50/50, no delay, end-of-month pay-day
\*  2 the seeded flow + stock project, every payment one month later
\*  3 flow by Duration, lump payment two months later on day 31
\*  4 stock only from a month's last day, paid on day 31 of the same month
\*  5 time charge only, paid two months later on day 10
\*  6 a small Milestone flow starting and ending in one month, split 50/50
\*  7 flow + stock whose stock start date is empty, split 25/75
\*  8 flow + time charge in one month, paid one month later
\*  9 flow only, 10,000 split 57/43, whose start share is no exact double
ProjectPool ==
    << With(MkProject("p1", <<TRUE, "Milestone", 6000000, <<2025, 1, 1>>, <<2025, 6, 30>>,
                              TRUE, 50>>, NoStock, NoTimeCharge),
            "Ordered", Billing(0, 0, 0, 99, 0, 0), <<Assign("e1", 50)>>),
       With(MkProject("p2", <<TRUE, "Milestone", 6000000, <<2025, 1, 1>>, <<2025, 6, 30>>,
                              TRUE, 50>>, <<TRUE, 50000, <<2025, 7, 1>> >>, NoTimeCharge),
            "Ordered", Billing(1, 99, 1, 99, 1, 99), <<Assign("e1", 50)>>),
       With(MkProject("p3", <<TRUE, "Duration", 1000001, <<2025, 1, 31>>, <<2025, 7, 1>>,
                              FALSE, 0>>, NoStock, NoTimeCharge),
            "PreOrder", Billing(0, 0, 2, 31, 0, 0),
            <<Assign("e2", 50), Assign("e2", 50)>>),
       With(MkProject("p4", <<FALSE, "Duration", 0, NoDate, NoDate, FALSE, 0>>,
                      <<TRUE, 50000, <<2025, 1, 31>> >>, NoTimeCharge),
            "PreOrder", Billing(0, 0, 0, 0, 0, 31),
            <<Assign("e1", 50), Assign("e2", 25)>>),
       With(MkProject("p5", <<FALSE, "Milestone", 100, <<2025, 1, 1>>, <<2025, 6, 30>>,
                              TRUE, 50>>, NoStock,
                      <<TRUE, (<<2025, 2>> :> 300) @@ (<<2025, 7>> :> 0)>>),
            "Lost", Billing(0, 0, 0, 0, 2, 10), <<Assign("e9", 100)>>),
       With(MkProject("p6", <<TRUE, "Milestone", 10, <<2025, 1, 15>>, <<2025, 1, 20>>,
                              TRUE, 50>>, NoStock, NoTimeCharge),
            "Delivered", Billing(0, 0, 0, 0, 0, 0), <<Assign("e2", 100)>>),
       With(MkProject("p7", <<TRUE, "Duration", 7, <<2024, 12, 31>>, <<2025, 1, 1>>,
                              TRUE, 25>>, <<TRUE, 50000, NoDate>>, NoTimeCharge),
            "Ordered", Billing(0, 15, 0, 0, 0, 0), <<>>),
       With(MkProject("p8", <<TRUE, "Milestone", 100, <<2025, 2, 28>>, <<2025, 2, 28>>,
                              FALSE, 0>>, NoStock, <<TRUE, (<<2025, 2>> :> 300)>>),
            "Ordered", Billing(0, 0, 0, 0, 1, 0), <<Assign("e1", 25)>>),
       With(MkProject("p9", <<TRUE, "Milestone", 10000, <<2025, 3, 10>>, <<2025, 8, 20>>,
                              TRUE, 57>>, NoStock, NoTimeCharge),
            "Delivered", Billing(0, 0, 0, 0, 0, 0), <<>>) >>

\* Project collections: 1..MaxProjects projects of the pool, in pool order.
RECURSIVE ProjectListsFrom(_, _)
ProjectListsFrom(first, n) ==
    IF n = 0 THEN { <<>> }
    ELSE UNION { { <<ProjectPool[j]>> \o rest : rest \in ProjectListsFrom(j + 1, n - 1) } :
                   j \in first..Len(ProjectPool) }

ProjectLists == UNION { ProjectListsFrom(1, n) : n \in 1..MaxProjects }

Item(id, category, amount, isRecurring, periodStart, periodEnd, payDay, paymentDate) ==
    [id |-> id, category |-> category, amount |-> amount, isRecurring |-> isRecurring,
     periodStart |-> periodStart, periodEnd |-> periodEnd, payDay |-> payDay,
     paymentDate |-> paymentDate, targetMonth |-> NoDate]

\* The ledger of the default settings: one recurring operating expense.
DefaultItems ==
    << Item("cf1", "OperatingExpense", 300000, TRUE, <<2024, 12>>, NoDate, 10, NoDate) >>

\* A ledger with every category, bounded and unbounded recurrence, pay-days
\* 31 / 99 / unset, one-time items and a recurring item without a period.
FullItems ==
    << Item("cf1", "OperatingExpense", 300000, TRUE, <<2024, 12>>, NoDate, 10, NoDate),
       Item("cf2", "Tax", 500, TRUE, <<2025, 2>>, <<2025, 4>>, 31, NoDate),
       Item("cf3", "LoanIn", 2000000, FALSE, NoDate, NoDate, 0, <<2025, 3, 31>>),
       Item("cf4", "Investment", 700, FALSE, NoDate, NoDate, 0, <<2025, 5, 15>>),
       Item("cf5", "Other", 40, TRUE, <<2025, 11>>, NoDate, 99, NoDate),
       Item("cf6", "LoanRepayment", 9, TRUE, <<2025, 1>>, <<2025, 1>>, 0, NoDate),
       Item("cf7", "Other", 1, TRUE, NoDate, NoDate, 5, NoDate),
       [Item("cf8", "LoanIn", 60, FALSE, NoDate, NoDate, 0, NoDate)
          EXCEPT !.targetMonth = <<2025, 6>>] >>

SettingsPool ==
    { [initialCashBalance |-> 0, salesTargets |-> [k \in {} |-> 0],
       monthlySalesTarget |-> 0, cashFlowItems |-> <<>>],
      [initialCashBalance |-> 5000000, salesTargets |-> [k \in {} |-> 0],
       monthlySalesTarget |-> 3000000, cashFlowItems |-> DefaultItems],
      [initialCashBalance |-> 1000000,
       salesTargets |-> (<<2025, 1>> :> 5000000) @@ (<<2025, 2>> :> 0),
       monthlySalesTarget |-> 3000000, cashFlowItems |-> FullItems] }

\* Values of `new Date()`: mid-term, before the term, after the term, and
\* the last day of a month during the day.
Todays ==
    { [y |-> 2025, m |-> 2, d |-> 15, t |-> 1],
      [y |-> 2024, m |-> 11, d |-> 1, t |-> 0],
      [y |-> 2025, m |-> 11, d |-> 1, t |-> 1],
      [y |-> 2025, m |-> 0, d |-> 31, t |-> 1] }

\* The read before which the clock passes midnight: the `today` of the third
\* loop iteration; the first and the second read made after a call of twelve
\* reads, by projectMetrics or by a further call.
CrossingReads == {2, 12, 13}

\* The clock during the calls: standing at one of Todays, or passing from
\* the last instant of January 2025 to the first of February.
Clocks ==
    { [first |-> td, next |-> td, from |-> 0] : td \in Todays }
    \cup { [first |-> [y |-> 2025, m |-> 0, d |-> 31, t |-> 1],
            next |-> [y |-> 2025, m |-> 1, d |-> 1, t |-> 0],
            from |-> n] : n \in CrossingReads }

\* Employee and work-log collections handed in together.
StaffPool ==
    { << <<Employee1, Employee2>>, SampleWorkLogs >>,
      << <<Employee1>>, SampleWorkLogs >> }

\* The fiscal terms (Dec of the year before .. Nov) that are projected.
Terms == {2025}

\* getTermDateRange(termYear).start = new Date(termYear - 1, 11, 1)
getTermStart(termYear) == NewDate(termYear - 1, 11, 1)

\* The inputs walked: every combination under a standing clock; the clock
\* passes midnight with the settings without a ledger (the ledger is booked
\* without a clock read).
ProjectionInputs ==
    { inp \in { [projects |-> ps, employees |-> st[1], workLogs |-> st[2],
                 settings |-> se, currentTerm |-> term,
                 termStart |-> getTermStart(term), clock |-> ck] :
                  ps \in ProjectLists, st \in StaffPool, se \in SettingsPool,
                  term \in Terms, ck \in Clocks } :
        inp.clock.first = inp.clock.next \/ inp.settings.cashFlowItems = <<>> }

InitProjection ==
    /\ gpInput \in ProjectionInputs
    /\ gpReads = 0
    /\ gpReturned = <<>>
    /\ gpCash = gpInput.settings.initialCashBalance
    /\ gpData = <<>>
    /\ gpCost = <<>>
    /\ gpMetrics = <<>>
    /\ gpDaily = <<>>
    /\ IdleRevenue
    /\ IdleCost
    /\ IdlePayment
    /\ IdleProvider

\* d = new Date(termStart.getFullYear(), termStart.getMonth() + i, 1)
IterationDate(termStart, i) == NewDate(termStart.y, termStart.m + i, 1)

\* Variant of ProjectionStep that keeps the running balance in the settings
\* passed in (settings.initialCashBalance += cashBalanceChange).
ProjectionStep_BalanceInSettings ==
    /\ Len(gpData) < TermMonths
    /\ LET inp == gpInput
           d == IterationDate(inp.termStart, Len(gpData))
           today == Now(inp.clock, gpReads)
           rec == ProjectionRecord(inp.projects, inp.employees, inp.workLogs,
                                   inp.settings, d, inp.clock, gpReads,
                                   inp.settings.initialCashBalance)
       IN  /\ gpCost' = Append(gpCost,
                               LaborCost(inp.projects, inp.employees, inp.workLogs,
                                         d.y, d.m, isPast(d, today)))
           /\ gpData' = Append(gpData, rec)
           /\ gpCash' = rec.cashBalance
           /\ gpInput' = [gpInput EXCEPT !.settings.initialCashBalance = rec.cashBalance]
           /\ gpReads' = gpReads + ReadsOfIteration(inp.projects)
    /\ UNCHANGED <<gpReturned, gpMetrics, gpDaily, rvVars, ccVars, pdVars, pvVars>>

\* One iteration of the loop of generateProjections: the month's labor cost
\* (the local `cost`), the pushed record and the running balance.
ProjectionStep ==
    /\ Len(gpData) < TermMonths
    /\ LET inp == gpInput
           d == IterationDate(inp.termStart, Len(gpData))
           today == Now(inp.clock, gpReads)
           rec == ProjectionRecord(inp.projects, inp.employees, inp.workLogs,
                                   inp.settings, d, inp.clock, gpReads, gpCash)
       IN  /\ gpCost' = Append(gpCost,
                               LaborCost(inp.projects, inp.employees, inp.workLogs,
                                         d.y, d.m, isPast(d, today)))
           /\ gpData' = Append(gpData, rec)
           /\ gpCash' = rec.cashBalance
           /\ gpReads' = gpReads + ReadsOfIteration(inp.projects)
    /\ UNCHANGED <<gpInput, gpReturned, gpMetrics, gpDaily, rvVars, ccVars, pdVars, pvVars>>

\* The caller calls generateProjections once more with the arguments it
\* passed before (the values they have now): the previous call has returned
\* its array, and the call starts with its own `data = []` and
\* `currentCash = settings.initialCashBalance`.  The system clock goes on: the
\* reads of the call follow those made so far.
CallAgain ==
    /\ Len(gpData) = TermMonths
    /\ gpReturned = <<>>
    /\ gpMetrics = <<>>
    /\ gpReturned' = gpData
    /\ gpData' = <<>>
    /\ gpCost' = <<>>
    /\ gpCash' = gpInput.settings.initialCashBalance
    /\ UNCHANGED <<gpInput, gpReads, gpMetrics, gpDaily, rvVars, ccVars, pdVars, pvVars>>

\* Totals of one project over the twelve months of the term (Analytics):
\* revenue, and cost as actuals for past months and plan otherwise, `today`
\* being the clock read made for the project.
ProjectTotals(p, employees, workLogs, currentTerm, today) ==
    LET startYear == currentTerm - 1
        dOf(i) == NewDate(startYear, 11 + i, 1)
        totalRevenue == SumAll([i \in 1..TermMonths |-> getMonthlyRevenue(p, dOf(i - 1))])
        totalCost ==
            SumAll([i \in 1..TermMonths |->
                      LET d == dOf(i - 1) IN
                      IF isPast(d, today)
                      THEN getProjectActualCost(p, employees, workLogs, d.y, d.m)
                      ELSE getProjectMonthlyCost(p, employees, d.y, d.m)])
    IN  [id |-> p.id, totalRevenue |-> totalRevenue, totalCost |-> totalCost,
         profit |-> totalRevenue - totalCost]

\* Stable insertion of x into a list sorted by descending totalRevenue.
RECURSIVE InsertByRevenue(_, _)
InsertByRevenue(sorted, x) ==
    IF sorted = <<>> THEN <<x>>
    ELSE IF Head(sorted).totalRevenue >= x.totalRevenue
    THEN <<Head(sorted)>> \o InsertByRevenue(Tail(sorted), x)
    ELSE <<x>> \o sorted

\* .sort((a, b) => b.totalRevenue - a.totalRevenue) of metrics 1..n
RECURSIVE SortByRevenue(_, _)
SortByRevenue(list, n) ==
    IF n = 0 THEN <<>>
    ELSE InsertByRevenue(SortByRevenue(list, n - 1), list[n])

\* projectMetrics of the Analytics view (the percentages derived from profit
\* and cost are display values and are left out): the clock is read once
\* for every project, the reads being number `reads` onwards.
projectMetrics(projects, employees, workLogs, currentTerm, clock, reads) ==
    SortByRevenue([j \in 1..Len(projects) |->
                     ProjectTotals(projects[j], employees, workLogs, currentTerm,
                                   Now(clock, reads + j - 1))],
                  Len(projects))

\* The Analytics view computes projectMetrics for the current term.
ProjectMetricsCall ==
    /\ Len(gpData) = TermMonths
    /\ gpMetrics = <<>>
    /\ gpMetrics' = projectMetrics(gpInput.projects, gpInput.employees, gpInput.workLogs,
                                   gpInput.currentTerm, gpInput.clock, gpReads)
    /\ gpReads' = gpReads + Len(gpInput.projects)
    /\ UNCHANGED <<gpInput, gpReturned, gpCash, gpData, gpCost, gpDaily,
                   rvVars, ccVars, pdVars, pvVars>>

\* One call generateDailyCashFlow(date, projects, settings, initialBalance)
\* for month k of the projected term, opened with the balance carried into
\* that month; the call is made once the other views are computed.
DailyCashFlowCall ==
    /\ Len(gpData) = TermMonths
    /\ gpMetrics # <<>>
    /\ gpDaily = <<>>
    /\ \E k \in 0..(TermMonths - 1) :
         LET initialBalance == IF k = 0 THEN gpInput.settings.initialCashBalance
                               ELSE gpData[k].cashBalance IN
            gpDaily' = [k |-> k, initialBalance |-> initialBalance,
                        rows |-> generateDailyCashFlow(
                                    IterationDate(gpInput.termStart, k),
                                    gpInput.projects, gpInput.settings,
                                    initialBalance)]
    /\ UNCHANGED <<gpInput, gpReads, gpReturned, gpCash, gpData, gpCost, gpMetrics,
                   rvVars, ccVars, pdVars, pvVars>>

NextProjection == ProjectionStep \/ ProjectMetricsCall \/ DailyCashFlowCall

SpecProjection == InitProjection /\ [][NextProjection]_vars

\* The same walk for a single project: the ledger of the settings is booked
\* independently of the projects.  The ledger properties (bucketing,
\* occurrence) are checked under this specification.
InitLedger == InitProjection /\ Len(gpInput.projects) = 1

SpecLedger == InitLedger /\ [][NextProjection]_vars

\* Two calls of generateProjections in a row, the second with what the first
\* left of the arguments and of the clock.  The frame of the function is checked under this
\* specification.
NextCalls == ProjectionStep \/ CallAgain

SpecCalls == InitProjection /\ [][NextCalls]_vars

---------------------------------------------------------------------------
(* Properties of getMonthlyRevenue, checked under SpecRevenue.             *)

\* Position in the window of the calendar month of a "YYYY-MM-DD" text.
WindowOffset(dateStr) ==
    (dateStr[1] * 12 + dateStr[2]) - (WindowStart[1] * 12 + WindowStart[2])

\* Window month k has been evaluated.
Evaluated(k) == k >= 0 /\ k < Len(rvOut)

\* Flow is the project's only revenue and both flow dates are set.
FlowOnly(p) ==
    /\ p.useFlow /\ ~p.useStock /\ ~p.useTimeCharge
    /\ p.flowStartDate # NoDate /\ p.flowEndDate # NoDate

\* C1 (Flow/Duration exactness): for a flow project recognised by Duration
\* whose period spans totalMonths >= 1 calendar months, the revenues of the
\* months from the start month to the end month sum to flowAmount exactly.
C1_DurationSumsToAmount ==
    LET p == rvProject IN
    (FlowOnly(p) /\ p.revenueMethod = "Duration"
        /\ WindowOffset(p.flowStartDate) <= WindowOffset(p.flowEndDate)
        /\ Evaluated(WindowOffset(p.flowEndDate)))
    => SumRange(rvOut, WindowOffset(p.flowStartDate) + 1,
                WindowOffset(p.flowEndDate) + 1) = p.flowAmount

\* C1 witness: 1,000,001 over the seven months 2025-01 .. 2025-07 has been
\* evaluated, and the last month carries a remainder.
C1_Witness ==
    /\ FlowOnly(rvProject) /\ rvProject.revenueMethod = "Duration"
    /\ rvProject.flowAmount = 1000001
    /\ rvProject.flowStartDate = <<2025, 1, 31>>
    /\ rvProject.flowEndDate = <<2025, 7, 1>>
    /\ Len(rvOut) = WindowLen
    /\ rvOut[3] = 142857 /\ rvOut[9] = 142859

\* C2 (Flow/Milestone split exactness): with split billing the revenue of
\* the start month and that of the end month add up to flowAmount for every
\* ratio 0..100; when both dates fall in one month that month carries it all.
C2_MilestoneSplitSumsToAmount ==
    LET p == rvProject
        lo == WindowOffset(p.flowStartDate)
        hi == WindowOffset(p.flowEndDate)
    IN  (FlowOnly(p) /\ p.revenueMethod = "Milestone" /\ p.billingConfig.flowSplit
            /\ Evaluated(lo) /\ Evaluated(hi))
        => IF lo = hi
           THEN rvOut[lo + 1] = p.flowAmount
           ELSE rvOut[lo + 1] + rvOut[hi + 1] = p.flowAmount

\* C2 witness: 100 split at 29 % over 2025-01 .. 2025-06; the start portion
\* is 28 (the double product is 28.999999999999996) and the end portion 72.
C2_Witness ==
    /\ FlowOnly(rvProject) /\ rvProject.revenueMethod = "Milestone"
    /\ rvProject.billingConfig.flowSplit
    /\ rvProject.billingConfig.flowStartRatio = 29
    /\ rvProject.flowAmount = 100
    /\ rvProject.flowStartDate = <<2025, 1, 1>>
    /\ rvProject.flowEndDate = <<2025, 6, 30>>
    /\ Len(rvOut) = WindowLen
    /\ rvOut[3] = 28 /\ rvOut[8] = 72

\* The project with its stock contract switched off.
WithoutStock(p) == [p EXCEPT !.useStock = FALSE]

\* C8 (Stock no-proration): for a project with Stock and a stock start date,
\* every month whose last day is on or after the start date (the month of the
\* start date and all later ones) includes the full stockAmount, and no
\* earlier month includes any stock revenue.
C8_StockFullMonth ==
    LET p == rvProject IN
    (p.useStock /\ p.stockStartDate # NoDate)
    => \A k \in 0..(Len(rvOut) - 1) :
          rvOut[k + 1] - getMonthlyRevenue(WithoutStock(p), WindowDate(k))
            = IF k >= WindowOffset(p.stockStartDate) THEN p.stockAmount ELSE 0

\* C8 witness: stock starts on 2025-01-31, the last day of its month, and
\* January 2025 is evaluated at the full 50,000 while December 2024 has none.
C8_Witness ==
    /\ rvProject.useStock /\ ~rvProject.useFlow /\ ~rvProject.useTimeCharge
    /\ rvProject.stockStartDate = <<2025, 1, 31>>
    /\ rvProject.stockAmount = 50000
    /\ Len(rvOut) >= 3
    /\ rvOut[2] = 0 /\ rvOut[3] = 50000

\* C10 (Flow/Duration placement): with totalMonths the inclusive count of
\* calendar months from the start month to the end month, every month of the
\* range but the last receives floor(flowAmount / totalMonths), the last
\* receives that plus flowAmount mod totalMonths, and every month outside the
\* range receives 0.
C10_DurationPlacement ==
    LET p == rvProject
        lo == WindowOffset(p.flowStartDate)
        hi == WindowOffset(p.flowEndDate)
        totalMonths == hi - lo + 1
    IN  (FlowOnly(p) /\ p.revenueMethod = "Duration")
        => \A k \in 0..(Len(rvOut) - 1) :
              rvOut[k + 1] =
                 IF k < lo \/ k > hi THEN 0
                 ELSE IF k < hi THEN p.flowAmount \div totalMonths
                 ELSE (p.flowAmount \div totalMonths) + (p.flowAmount % totalMonths)

\* C10 witness: 1,000,001 over 2024-12 .. 2025-11 (twelve months): 83,333 in
\* each of the first eleven, 83,338 in the last, 0 before and after.
C10_Witness ==
    /\ FlowOnly(rvProject) /\ rvProject.revenueMethod = "Duration"
    /\ rvProject.flowAmount = 1000001
    /\ rvProject.flowStartDate = <<2024, 12, 1>>
    /\ rvProject.flowEndDate = <<2025, 11, 30>>
    /\ Len(rvOut) = WindowLen
    /\ rvOut[1] = 0 /\ rvOut[2] = 83333 /\ rvOut[12] = 83333
    /\ rvOut[13] = 83338 /\ rvOut[14] = 0

---------------------------------------------------------------------------
(* Properties of the cost engine, checked under SpecCost.                  *)

\* C7 (Cost gating by contract phase): getProjectMonthlyCost is 0, whatever
\* the assignments, (a) with Flow and both flow dates, in every month lying
\* entirely before flowStartDate or entirely after flowEndDate; (b) without
\* Flow but with Stock, in every month that ends before stockStartDate;
\* (c) with none of Flow, Stock, Time-charge, in every month.
C7_CostGating ==
    LET p == ccProject IN
    \A k \in 0..(Len(ccPlanned) - 1) :
        /\ (p.useFlow /\ p.flowStartDate # NoDate /\ p.flowEndDate # NoDate
              /\ (k < WindowOffset(p.flowStartDate) \/ k > WindowOffset(p.flowEndDate)))
           => ccPlanned[k + 1] = 0
        /\ (~p.useFlow /\ p.useStock /\ p.stockStartDate # NoDate
              /\ k < WindowOffset(p.stockStartDate))
           => ccPlanned[k + 1] = 0
        /\ (~p.useFlow /\ ~p.useStock /\ ~p.useTimeCharge)
           => ccPlanned[k + 1] = 0

\* C7 witness: a flow + stock project (flow 2025-01-01 .. 2025-06-30, stock
\* from 2025-07-01) with "e1" assigned at 50 %: 300,000 in June 2025 inside
\* the flow period, 0 in July 2025 and in December 2024 outside it.
C7_Witness ==
    /\ ccProject.useFlow /\ ccProject.useStock
    /\ ccProject.flowStartDate = <<2025, 1, 1>>
    /\ ccProject.flowEndDate = <<2025, 6, 30>>
    /\ ccProject.stockStartDate = <<2025, 7, 1>>
    /\ ccProject.assignments = <<Assign("e1", 50)>>
    /\ Len(ccPlanned) = WindowLen
    /\ ccPlanned[2] = 0 /\ ccPlanned[8] = 300000 /\ ccPlanned[9] = 0

\* C11 (Flow/Milestone placement), as claimed: under the Milestone method
\* flow revenue is non-zero only in the month of flowStartDate and the month
\* of flowEndDate; with split billing the start month gets
\* floor(flowAmount * flowStartRatio / 100) and the end month the rest, and
\* without split billing the start month gets nothing and the end month the
\* whole flowAmount.
C11_MilestonePlacement ==
    LET p == rvProject
        lo == WindowOffset(p.flowStartDate)
        hi == WindowOffset(p.flowEndDate)
        startPart == (p.flowAmount * p.billingConfig.flowStartRatio) \div 100
    IN  (FlowOnly(p) /\ p.revenueMethod = "Milestone")
        => \A k \in 0..(Len(rvOut) - 1) :
              rvOut[k + 1] =
                 (IF k = lo /\ p.billingConfig.flowSplit THEN startPart ELSE 0)
                 + (IF k = hi
                    THEN (IF p.billingConfig.flowSplit
                          THEN p.flowAmount - startPart ELSE p.flowAmount)
                    ELSE 0)

\* The project reduced to one contract kind, the other kinds' flags off and
\* their amounts, dates and prices cleared.
PureFlow(p) ==
    [p EXCEPT !.useStock = FALSE, !.stockAmount = 0, !.stockStartDate = NoDate,
              !.useTimeCharge = FALSE, !.timeChargePrices = NoPrices]

PureStock(p) ==
    [p EXCEPT !.useFlow = FALSE, !.flowAmount = 0, !.flowStartDate = NoDate,
              !.flowEndDate = NoDate,
              !.useTimeCharge = FALSE, !.timeChargePrices = NoPrices]

\* The amount stored under the "YYYY-MM" key of window month k, 0 when none.
StoredPrice(p, k) ==
    LET key == <<WindowDate(k).y, WindowDate(k).m + 1>> IN
    IF key \in DOMAIN p.timeChargePrices THEN p.timeChargePrices[key] ELSE 0

\* C12 (Hybrid additivity): the revenue of a month is the sum of what the
\* project's flow alone, its stock alone and its time charge alone yield, over
\* exactly the kinds whose flag is on; a kind whose flag is off adds 0 even
\* with amount and dates populated, and the time-charge part is the amount
\* stored under the month's key, or 0.
C12_HybridAdditivity ==
    \A k \in 0..(Len(rvOut) - 1) :
        rvOut[k + 1] =
            (IF rvProject.useFlow
             THEN getMonthlyRevenue(PureFlow(rvProject), WindowDate(k)) ELSE 0)
            + (IF rvProject.useStock
               THEN getMonthlyRevenue(PureStock(rvProject), WindowDate(k)) ELSE 0)
            + (IF rvProject.useTimeCharge THEN StoredPrice(rvProject, k) ELSE 0)

\* C12 witness: flow by Duration (6,000,000 over six months) and time charge
\* (300 in 2025-02) are on, stock is off with its amount and start date
\* populated; February 2025 yields 1,000,000 + 300.  In July the stored
\* time-charge amount is 0.
C12_Witness ==
    /\ rvProject.useFlow /\ rvProject.revenueMethod = "Duration"
    /\ rvProject.flowAmount = 6000000
    /\ rvProject.flowStartDate = <<2025, 1, 1>>
    /\ rvProject.flowEndDate = <<2025, 6, 30>>
    /\ ~rvProject.useStock /\ rvProject.stockAmount = 50000
    /\ rvProject.stockStartDate = <<2025, 1, 31>>
    /\ rvProject.useTimeCharge /\ StoredPrice(rvProject, 3) = 300
    /\ Len(rvOut) = WindowLen
    /\ rvOut[4] = 1000300 /\ rvOut[9] = 0

---------------------------------------------------------------------------
(* Properties of getPaymentDate, checked under SpecPayment.                *)

\* Number of days of month m (0-based) of year y, from the calendar.
MonthLength(y, m) ==
    IF m = 1
    THEN (IF (y % 4 = 0 /\ y % 100 # 0) \/ y % 400 = 0 THEN 29 ELSE 28)
    ELSE IF m \in {3, 5, 8, 10} THEN 30 ELSE 31

\* C13 (Payment date rule): with payDay 99, or unset / 0 as the callers pass
\* it, the result is the last day of the month `delay` months after (year,
\* month); with any other payDay it is that day counted from the first day of
\* the shifted month without clamping: inside the shifted month exactly when
\* payDay does not exceed the month's length, else the overflow days into the
\* following month.
C13_PaymentDateRule ==
    pdOut # <<>> =>
        LET n == pdIn.year * 12 + pdIn.month + pdIn.delay
            len == MonthLength(n \div 12, n % 12)
            day == IF pdIn.payDay = 0 THEN 99 ELSE pdIn.payDay
        IN  /\ day = 99 =>
                 /\ pdOut.y * 12 + pdOut.m = n
                 /\ pdOut.d = len
            /\ day # 99 =>
                 /\ (pdOut.y * 12 + pdOut.m = n) <=> (day <= len)
                 /\ day <= len => pdOut.d = day
                 /\ day > len =>
                      /\ pdOut.y * 12 + pdOut.m = n + 1
                      /\ pdOut.d = day - len

\* C13 witness: pay-day 31 one month after January 2025 is 2025-03-03, and
\* is not clamped to 2025-02-28.
C13_Witness ==
    /\ pdIn = [year |-> 2025, month |-> 0, delay |-> 1, payDay |-> 31]
    /\ pdOut # <<>>
    /\ pdOut.y = 2025 /\ pdOut.m = 2 /\ pdOut.d = 3

---------------------------------------------------------------------------
(* Properties of generateProjections and generateDailyCashFlow, checked    *)
(* under SpecProjection.                                                   *)

\* The record the loop has just pushed: gpData only grows and is complete
\* before projectMetrics runs, so every record is the pushed one in exactly
\* one state of the walk, and a property of the pushed record in every state
\* is a property of every record.
Pushed == IF gpMetrics = <<>> /\ gpData # <<>> THEN {Len(gpData)} ELSE {}

\* Calendar month number year * 12 + month of the record pushed in
\* iteration i (i = 1 is the first record).
RecordMonth(i) == gpData[i].date.y * 12 + gpData[i].date.m

\* The `today` of loop iteration i of generateProjections (i = 1 is the
\* first): the clock read that opens the iteration.
IterationToday(i) ==
    Now(gpInput.clock, (i - 1) * ReadsOfIteration(gpInput.projects))

\* The `today` projectMetrics reads for the j-th project, the call following
\* the twelve iterations of generateProjections.
MetricsToday(j) ==
    Now(gpInput.clock, TermMonths * ReadsOfIteration(gpInput.projects) + j - 1)

\* Calendar month number of the month containing `today`.
TodayMonth(today) == today.y * 12 + today.m

\* Labor cost of calendar month number n: work logs if n is before the
\* month containing today, assignments otherwise.
CostByPolicy(n, today) ==
    LaborCost(gpInput.projects, gpInput.employees, gpInput.workLogs,
              n \div 12, n % 12, n < TodayMonth(today))

\* C3 (Cash arrears), as claimed: the labor cost in each record's outflow is
\* the labor cost of the previous calendar month, actual if that month is
\* before the current calendar month and planned otherwise; from the second
\* record on it is the labor cost the same call computed in the preceding
\* iteration.
C3_CashArrears ==
    \A i \in Pushed :
        /\ gpData[i].cost = CostByPolicy(RecordMonth(i) - 1, IterationToday(i))
        /\ i >= 2 => gpData[i].cost = gpCost[i - 1]

\* Sum over records 1..i of (cashIn + financialIn) - (paid labor + sga +
\* taxRepayment + investment).
RECURSIVE NetCashTo(_)
NetCashTo(i) ==
    IF i = 0 THEN 0
    ELSE NetCashTo(i - 1)
         + (gpData[i].cashIn + gpData[i].financialIn)
         - (gpData[i].cost + gpData[i].sga + gpData[i].taxRepayment
              + gpData[i].investment)

\* C4 (Balance continuity): the cashBalance of every record equals
\* settings.initialCashBalance plus the sum over the records up to it of
\* cash in (cashIn + financialIn) minus cash out (paid labor + sga +
\* taxRepayment + investment).
C4_BalanceContinuity ==
    \A i \in Pushed :
        gpData[i].cashBalance = gpInput.settings.initialCashBalance + NetCashTo(i)

\* C4 witness: all twelve records are pushed, with a loan-in, project cash
\* and outflows among them, and the balance has moved.
C4_Witness ==
    /\ Len(gpData) = TermMonths
    /\ \E i \in 1..TermMonths : gpData[i].financialIn > 0
    /\ \E i \in 1..TermMonths : gpData[i].cashIn > 0
    /\ \E i \in 1..TermMonths : gpData[i].cost > 0 /\ gpData[i].taxRepayment > 0
    /\ gpData[TermMonths].cashBalance # gpInput.settings.initialCashBalance
    /\ gpCash = gpData[TermMonths].cashBalance

\* Sum over the term's months of one project's cost by the policy: work
\* logs before the month containing today, assignments from it on.
TermCostByPolicy(p, today) ==
    SumAll([i \in 1..TermMonths |->
              LET n == RecordMonth(i) IN
              IF n < TodayMonth(today)
              THEN getProjectActualCost(p, gpInput.employees, gpInput.workLogs,
                                        n \div 12, n % 12)
              ELSE getProjectMonthlyCost(p, gpInput.employees, n \div 12, n % 12)])

\* C5 (Past/future cost switch): the labor cost of a month comes from work
\* logs if and only if the month is strictly before the calendar month
\* containing today; that month and every later one use the planned cost.
\* It holds of the loop of generateProjections and of projectMetrics, today
\* being the clock read of the iteration resp. of the project.
C5_PastFutureSwitch ==
    /\ \A i \in Pushed : gpCost[i] = CostByPolicy(RecordMonth(i), IterationToday(i))
    /\ (gpMetrics # <<>> /\ gpDaily = <<>>) =>
         \A j \in 1..Len(gpInput.projects) :
            \E k \in 1..Len(gpMetrics) :
               /\ gpMetrics[k].id = gpInput.projects[j].id
               /\ gpMetrics[k].totalCost =
                     TermCostByPolicy(gpInput.projects[j], MetricsToday(j))

\* C5 witness: today is 2025-03-15 and project "p1" has work logs in
\* January and in March: January (past) costs the logged 150,375, March (the
\* current month) costs the planned 240,000 and not the logged 875.
C5_Witness ==
    /\ gpInput.clock.first = [y |-> 2025, m |-> 2, d |-> 15, t |-> 1]
    /\ gpInput.clock.next = gpInput.clock.first
    /\ Len(gpInput.projects) = 1 /\ gpInput.projects[1].id = "p1"
    /\ Len(gpInput.employees) = 2
    /\ gpMetrics # <<>>
    /\ gpCost[2] = 150375 /\ gpCost[4] = 240000
    /\ getProjectActualCost(gpInput.projects[1], gpInput.employees, gpInput.workLogs,
                            2025, 2) = 875
    /\ getProjectMonthlyCost(gpInput.projects[1], gpInput.employees, 2025, 0) = 300000

\* C6 (Daily/monthly consistency), as claimed: the daily changes of a month
\* add up to the month's (cashIn + financialIn) - (sga + taxRepayment +
\* investment) of generateProjections.
C6_DailyMatchesMonthly ==
    gpDaily # <<>> =>
        LET rec == gpData[gpDaily.k + 1]
            rows == gpDaily.rows
        IN  SumAll([dd \in 1..Len(rows) |-> rows[dd].change])
              = (rec.cashIn + rec.financialIn)
                - (rec.sga + rec.taxRepayment + rec.investment)

\* The end-to-end scenario: one flow-only project, 6,000,000 from 2025-01-01
\* to 2025-06-30, Milestone, split 50/50, no delay, end-of-month pay-day.
IsScenario(ps) ==
    /\ Len(ps) = 1
    /\ ps[1].useFlow /\ ~ps[1].useStock /\ ~ps[1].useTimeCharge
    /\ ps[1].flowAmount = 6000000
    /\ ps[1].flowStartDate = <<2025, 1, 1>> /\ ps[1].flowEndDate = <<2025, 6, 30>>
    /\ ps[1].revenueMethod = "Milestone"
    /\ ps[1].billingConfig.flowSplit /\ ps[1].billingConfig.flowStartRatio = 50
    /\ ps[1].billingConfig.flowStartDelay = 0 /\ ps[1].billingConfig.flowEndDelay = 0
    /\ ps[1].billingConfig.flowStartPayDay \in {0, 99}
    /\ ps[1].billingConfig.flowEndPayDay \in {0, 99}

\* C9 (End-to-end scenario): over the term Dec 2024 .. Nov 2025 the
\* projection reports revenue 3,000,000 in January and in June and 0 in every
\* other month, and cashIn 3,300,000 in January and in June and 0 in every
\* other month.
C9_Scenario ==
    (IsScenario(gpInput.projects) /\ gpInput.currentTerm = 2025)
    => \A i \in 1..Len(gpData) :
          LET inPayMonth == gpData[i].date.y = 2025 /\ gpData[i].date.m \in {0, 5} IN
          /\ gpData[i].revenue = (IF inPayMonth THEN 3000000 ELSE 0)
          /\ gpData[i].cashIn = (IF inPayMonth THEN 3300000 ELSE 0)

\* C9 witness: the scenario has been projected over all twelve months.
C9_Witness ==
    /\ IsScenario(gpInput.projects) /\ gpInput.currentTerm = 2025
    /\ Len(gpData) = TermMonths
    /\ gpData[2].revenue = 3000000 /\ gpData[2].cashIn = 3300000
    /\ gpData[7].revenue = 3000000 /\ gpData[7].cashIn = 3300000
    /\ gpData[1].revenue = 0 /\ gpData[8].cashIn = 0

\* Calendar month number of the payment for the month of a "YYYY-MM-DD"
\* text: `delay` months later, and one more when the pay-day (0 = 99 = end
\* of month) exceeds the length of that month.
PayMonth(dateStr, delay, payDay) ==
    LET n == dateStr[1] * 12 + (dateStr[2] - 1) + delay IN
    IF payDay \notin {0, 99} /\ payDay > MonthLength(n \div 12, n % 12)
    THEN n + 1 ELSE n

\* The flow payments of project p due in calendar month number n, in
\* hundredths: the start share when billing is split, and the remaining
\* share or the whole flowAmount at the end.
DueFlowPay100(p, n) ==
    LET b == p.billingConfig IN
    IF ~p.useFlow THEN 0
    ELSE (IF p.flowStartDate # NoDate /\ b.flowSplit
             /\ PayMonth(p.flowStartDate, b.flowStartDelay, b.flowStartPayDay) = n
          THEN p.flowAmount * b.flowStartRatio ELSE 0)
         + (IF p.flowEndDate # NoDate
               /\ PayMonth(p.flowEndDate, b.flowEndDelay, b.flowEndPayDay) = n
            THEN (IF b.flowSplit THEN p.flowAmount * (100 - b.flowStartRatio)
                  ELSE p.flowAmount * 100)
            ELSE 0)

\* C14 (Flow cash inflow), as claimed: the start payment (flowAmount * flowStartRatio /
\* 100, only with split billing) enters the cashIn of the month of the start
\* payment date, the end payment (the remaining share, or the whole
\* flowAmount without split) that of the month of the end payment date, and
\* no other month; the dates follow from the flow start / end month, the
\* delay and the pay-day.
C14_FlowCashInflow ==
    \A i \in 1..Len(gpData) :
        gpData[i].cashIn =
            FloorTax100(SumAll([j \in 1..Len(gpInput.projects) |->
                DueFlowPay100(gpInput.projects[j], RecordMonth(i))
                + 100 * StockCashIn(gpInput.projects[j],
                                    gpData[i].date.y, gpData[i].date.m)]))

\* The stock / time-charge payment of project p due in calendar month number
\* n: the project's revenue of the month stockDelay months earlier, when
\* positive.
DueStockPay(p, n) ==
    IF (p.useStock /\ p.stockStartDate # NoDate) \/ p.useTimeCharge
    THEN LET k == n - p.billingConfig.stockDelay
             rev == getMonthlyRevenue(p, [y |-> k \div 12, m |-> k % 12,
                                          d |-> 1, t |-> 0])
         IN  IF rev > 0 THEN rev ELSE 0
    ELSE 0

\* The stock / time-charge inflow in the records of generateProjections: in
\* every record cashIn is the marked-up sum of the flow payments (as the
\* doubles accumulate them) and of the stock / time-charge payments due; for
\* a single project without flow it is
\* the marked-up revenue of the record stockDelay months earlier.
StockInflowMonthly ==
    \A i \in 1..Len(gpData) :
        /\ LET s100 == SumAll([j \in 1..Len(gpInput.projects) |->
                  FlowCashIn100(gpInput.projects[j],
                                gpData[i].date.y, gpData[i].date.m)
                  + 100 * DueStockPay(gpInput.projects[j], RecordMonth(i))])
           IN  gpData[i].cashIn =
                  FloorTax100(s100)
                  - (IF ShortSum(gpInput.projects, gpData[i].date.y,
                                 gpData[i].date.m, s100) THEN 1 ELSE 0)
        /\ LET p == gpInput.projects[1]
               e == i - p.billingConfig.stockDelay
           IN  (Len(gpInput.projects) = 1 /\ ~p.useFlow /\ e >= 1
                  /\ ((p.useStock /\ p.stockStartDate # NoDate) \/ p.useTimeCharge))
               => gpData[i].cashIn =
                     FloorTax100(100 * (IF gpData[e].revenue > 0
                                        THEN gpData[e].revenue ELSE 0))

\* The stock / time-charge inflow in the rows of generateDailyCashFlow: for
\* projects without flow and an empty ledger the changes of the month add up
\* to the marked-up payments due in that month.
StockInflowDaily ==
    (/\ gpDaily # <<>>
     /\ gpInput.settings.cashFlowItems = <<>>
     /\ \A j \in 1..Len(gpInput.projects) : ~gpInput.projects[j].useFlow)
    => SumAll([dd \in 1..Len(gpDaily.rows) |-> gpDaily.rows[dd].change])
         = SumAll([j \in 1..Len(gpInput.projects) |->
                     FloorTax100(100 * DueStockPay(gpInput.projects[j],
                                                   RecordMonth(gpDaily.k + 1)))])

\* C15 (Stock/Time-charge cash inflow), as claimed: for a project with Stock
\* (and a stock start date) or Time-charge active, the pre-tax inflow added to
\* month M through the stock / time-charge path is the project's revenue of
\* the month stockDelay months before M when that is positive and 0
\* otherwise, in generateProjections and in generateDailyCashFlow.
C15_StockInflow == StockInflowMonthly /\ StockInflowDaily

\* floor(1.1 * x) for x given in hundredths: floor(11 x100 / 1000), computed
\* as floor((x100 + floor(x100 / 10)) / 100).
TaxedFloor(x100) == (x100 + x100 \div 10) \div 100

\* Sum of the amounts of the loan-in items of the ledger occurring in the
\* month whose first day is d.
LoanInOf(items, d) ==
    SumAll([j \in 1..Len(items) |->
              IF items[j].category = "LoanIn" /\ ItemOccurs(items[j], d)
              THEN items[j].amount ELSE 0])

\* C16 (Tax markup), as claimed: in every monthly record cashIn is
\* floor(1.1 * S), S the sum of all project inflows of the month (flow payments and stock /
\* time-charge payments); the markup is applied once, to the sum, and not to
\* the loan-in items: totalCashIn exceeds cashIn by their plain amounts.
C16_TaxMarkup ==
    \A i \in 1..Len(gpData) :
        /\ gpData[i].cashIn =
              TaxedFloor(SumAll([j \in 1..Len(gpInput.projects) |->
                  DueFlowPay100(gpInput.projects[j], RecordMonth(i))
                  + 100 * DueStockPay(gpInput.projects[j], RecordMonth(i))]))
        /\ gpData[i].financialIn
              = LoanInOf(gpInput.settings.cashFlowItems, gpData[i].date)
        /\ gpData[i].totalCashIn = gpData[i].cashIn + gpData[i].financialIn

\* Sum of the amounts of the ledger items occurring in the month whose first
\* day is d and whose category satisfies the membership test: in cats when
\* inside is TRUE, outside cats otherwise.
AmountOf(items, d, cats, inside) ==
    SumAll([j \in 1..Len(items) |->
              IF ItemOccurs(items[j], d) /\ ((items[j].category \in cats) = inside)
              THEN items[j].amount ELSE 0])

KnownCategories == {"OperatingExpense", "Tax", "LoanRepayment", "Investment", "LoanIn"}

\* C17 (Ledger bucketing): in every monthly record each occurring ledger item
\* adds its amount to exactly one of sga (operating expense and any unknown
\* category), taxRepayment (tax, loan repayment), investment and financialIn
\* (loan-in), so the four add up to the amounts of the occurring items; only
\* loan-in items increase cash, in the records and in the daily rows.
C17_LedgerBucketing ==
    /\ \A i \in Pushed :
          LET r == gpData[i]
              items == gpInput.settings.cashFlowItems
          IN  /\ r.sga = AmountOf(items, r.date, {"OperatingExpense"}, TRUE)
                         + AmountOf(items, r.date, KnownCategories, FALSE)
              /\ r.taxRepayment = AmountOf(items, r.date, {"Tax", "LoanRepayment"}, TRUE)
              /\ r.investment = AmountOf(items, r.date, {"Investment"}, TRUE)
              /\ r.financialIn = AmountOf(items, r.date, {"LoanIn"}, TRUE)
              /\ r.sga + r.taxRepayment + r.investment + r.financialIn
                    = AmountOf(items, r.date, {}, FALSE)
              /\ r.totalCashIn = r.cashIn + r.financialIn
              /\ r.totalCashOut = r.cost + r.sga + r.taxRepayment + r.investment
    /\ gpDaily # <<>> =>
          LET d == gpData[gpDaily.k + 1].date
              items == gpInput.settings.cashFlowItems
              fromProjects == ProjectEvents(gpInput.projects, 1, d.y, d.m)
          IN  \A dd \in 1..Len(gpDaily.rows) :
                 gpDaily.rows[dd].change
                    = DailyChange(fromProjects, dd)
                      + SumAll([j \in 1..Len(items) |->
                           IF ItemOccurs(items[j], d) /\ ItemDay(items[j], d.y, d.m) = dd
                           THEN (IF items[j].category = "LoanIn"
                                 THEN items[j].amount ELSE 0 - items[j].amount)
                           ELSE 0])

\* C17 witness: with the full ledger, November 2025 books the operating
\* expense of 300,000 and the item of the unknown category "Other" (40) under
\* sga; March 2025 has the loan of 2,000,000 as financialIn and the tax of
\* 500 as taxRepayment; May 2025 the investment of 700.
C17_Witness ==
    /\ Len(gpData) = TermMonths
    /\ gpData[12].sga = 300040
    /\ gpData[4].financialIn = 2000000 /\ gpData[4].taxRepayment = 500
    /\ gpData[6].investment = 700
    /\ gpDaily # <<>> /\ gpDaily.k = 3
    /\ gpDaily.rows[31].change >= 2000000 - 500

\* The calendar month number (12 * year + month index) of a "YYYY-MM" key
\* or of a "YYYY-MM-DD" date.
MonthOfKey(key) == key[1] * 12 + key[2] - 1

\* Occurrence in calendar month number n as the claim words it: a recurring
\* item within its inclusive window, a one-time item in the month of its
\* paymentDate.
ClaimedOccurs(item, n) ==
    IF item.isRecurring
    THEN /\ item.periodStart # NoDate
         /\ MonthOfKey(item.periodStart) <= n
         /\ (item.periodEnd = NoDate \/ n <= MonthOfKey(item.periodEnd))
    ELSE item.paymentDate # NoDate /\ MonthOfKey(item.paymentDate) = n

\* The same with the legacy field: a one-time item without paymentDate
\* occurs in its targetMonth.
OccursWithLegacy(item, n) ==
    IF item.isRecurring \/ item.paymentDate # NoDate
    THEN ClaimedOccurs(item, n)
    ELSE item.targetMonth # NoDate /\ MonthOfKey(item.targetMonth) = n

\* Records and daily rows book exactly the items chosen by Occ: the ledger
\* amounts of every record add up to those of the chosen items (the amounts
\* of the modelled ledgers have distinct subset sums), financialIn to those
\* of the chosen loan-in items, and every day of generateDailyCashFlow books
\* the chosen items of its month falling on that day.
LedgerFollows(Occ(_, _)) ==
    LET items == gpInput.settings.cashFlowItems IN
    /\ \A i \in Pushed :
          LET r == gpData[i] IN
          /\ r.sga + r.taxRepayment + r.investment + r.financialIn
                = SumAll([j \in 1..Len(items) |->
                            IF Occ(items[j], RecordMonth(i)) THEN items[j].amount ELSE 0])
          /\ r.financialIn
                = SumAll([j \in 1..Len(items) |->
                            IF Occ(items[j], RecordMonth(i)) /\ items[j].category = "LoanIn"
                            THEN items[j].amount ELSE 0])
    /\ gpDaily # <<>> =>
          LET d == gpData[gpDaily.k + 1].date
              fromProjects == ProjectEvents(gpInput.projects, 1, d.y, d.m)
          IN  \A dd \in 1..Len(gpDaily.rows) :
                 gpDaily.rows[dd].change
                    = DailyChange(fromProjects, dd)
                      + SumAll([j \in 1..Len(items) |->
                           IF Occ(items[j], RecordMonth(gpDaily.k + 1))
                              /\ ItemDay(items[j], d.y, d.m) = dd
                           THEN (IF items[j].category = "LoanIn"
                                 THEN items[j].amount ELSE 0 - items[j].amount)
                           ELSE 0])

\* C18 (Ledger occurrence rule), as claimed: a recurring item occurs in month
\* M iff it has a periodStart and periodStart <= M <= periodEnd (inclusive,
\* unbounded without periodEnd); a one-time item occurs in exactly the month
\* containing its paymentDate; generateProjections and generateDailyCashFlow
\* decide alike.
C18_OccurrenceAsClaimed == LedgerFollows(ClaimedOccurs)

\* C18, amended: as above, and a one-time item without paymentDate occurs in
\* exactly the month named by its legacy targetMonth; with neither it never
\* occurs.
C18_LedgerOccurrence == LedgerFollows(OccursWithLegacy)

\* C18 witness: the full ledger over the term: the tax item (2025-02 to
\* 2025-04) is booked in April and not in May, the repayment of the one-month
\* window 2025-01 in January only, the item from 2025-11 in November, the
\* loan with only targetMonth 2025-06 in June, and the daily rows of June
\* are built.
C18_Witness ==
    /\ Len(gpData) = TermMonths
    /\ gpData[5].taxRepayment = 500 /\ gpData[6].taxRepayment = 0
    /\ gpData[2].taxRepayment = 9 /\ gpData[3].taxRepayment = 500
    /\ gpData[11].sga = 300000 /\ gpData[12].sga = 300040
    /\ gpData[7].financialIn = 60 /\ gpData[4].financialIn = 2000000
    /\ gpDaily # <<>> /\ gpDaily.k = 6

\* Sum over the projects of the walk with the given status of their
\* getMonthlyRevenue for the month of record i.
StatusRevenue(i, status) ==
    SumAll([j \in 1..Len(gpInput.projects) |->
              IF gpInput.projects[j].status = status
              THEN getMonthlyRevenue(gpInput.projects[j], gpData[i].date) ELSE 0])

\* C19 (Confirmed/potential split): in every monthly record confirmedRevenue
\* is the revenue of the Ordered and Delivered projects, potentialRevenue
\* that of the PreOrder projects, revenue that of all projects, and revenue
\* - confirmedRevenue - potentialRevenue is the revenue of the Lost projects.
C19_ConfirmedPotentialSplit ==
    \A i \in Pushed :
        LET r == gpData[i] IN
        /\ r.confirmedRevenue = StatusRevenue(i, "Ordered") + StatusRevenue(i, "Delivered")
        /\ r.potentialRevenue = StatusRevenue(i, "PreOrder")
        /\ r.revenue = SumAll([j \in 1..Len(gpInput.projects) |->
                                 getMonthlyRevenue(gpInput.projects[j], r.date)])
        /\ r.revenue - r.confirmedRevenue - r.potentialRevenue = StatusRevenue(i, "Lost")

\* C19 witness: the Ordered project "p8" (100 + 300 in February 2025) with
\* the Lost project "p5" (300 in February 2025): revenue 700, confirmed 400,
\* potential 0, so 300 belong to neither.
C19_Witness ==
    /\ Len(gpInput.projects) = 2
    /\ gpInput.projects[1].id = "p5" /\ gpInput.projects[2].id = "p8"
    /\ Len(gpData) = TermMonths
    /\ gpData[3].revenue = 700 /\ gpData[3].confirmedRevenue = 400
    /\ gpData[3].potentialRevenue = 0

\* C20 (Stock/flow split), as claimed: in every monthly record stockRevenue +
\* flowRevenue = revenue, every project's stock share of the month lies
\* between 0 and the project's revenue of the month, and so flowRevenue is
\* never negative and stockRevenue never exceeds revenue.
C20_StockFlowSplit ==
    \A i \in 1..Len(gpData) :
        LET r == gpData[i] IN
        /\ r.stockRevenue + r.flowRevenue = r.revenue
        /\ \A j \in 1..Len(gpInput.projects) :
              LET p == gpInput.projects[j]
                  rev == getMonthlyRevenue(p, r.date)
                  sPart == StockPart(p, rev, r.date.y, r.date.m,
                                     Now(gpInput.clock,
                                         (i - 1) * ReadsOfIteration(gpInput.projects)
                                           + 1 + StockReads(gpInput.projects, j)))
              IN  0 <= sPart /\ sPart <= rev
        /\ r.flowRevenue >= 0
        /\ 0 <= r.stockRevenue /\ r.stockRevenue <= r.revenue

---------------------------------------------------------------------------
(* Further properties of the cost engine, checked under SpecCost.          *)

\* The effective monthly cost of the employee with the given id: the
\* override stored under the month key when there is one (0 included), the
\* default otherwise; 0 for an id absent from the collection.
EffectiveCost(employees, id, year, month) ==
    IF \E i \in 1..Len(employees) : employees[i].id = id
    THEN LET e == employees[CHOOSE i \in 1..Len(employees) : employees[i].id = id]
             key == <<year, month + 1>>
         IN  IF key \in DOMAIN e.monthlyData THEN e.monthlyData[key].cost
             ELSE e.defaultMonthlyCost
    ELSE 0

\* C21 (Planned cost formula), as claimed: when not gated to zero,
\* getProjectMonthlyCost is the floor, taken once after summation, of the sum
\* over the assignments whose employee exists of effectiveCost *
\* utilizationRate / 100; assignments of absent employees add nothing.
C21_PlannedCostFormula ==
    \A k \in 0..(Len(ccPlanned) - 1) :
        LET d == WindowDate(k) IN
        ~CostGated(ccProject, d.y, d.m) =>
            ccPlanned[k + 1] =
                SumAll([n \in 1..Len(ccProject.assignments) |->
                          EffectiveCost(ccEmployees, ccProject.assignments[n].employeeId,
                                        d.y, d.m)
                          * ccProject.assignments[n].utilizationRate]) \div 100

\* The effective monthly hours of the employee with the given id, as
\* EffectiveCost.
EffectiveHours(employees, id, year, month) ==
    IF \E i \in 1..Len(employees) : employees[i].id = id
    THEN LET e == employees[CHOOSE i \in 1..Len(employees) : employees[i].id = id]
             key == <<year, month + 1>>
         IN  IF key \in DOMAIN e.monthlyData THEN e.monthlyData[key].monthlyHours
             ELSE e.defaultMonthlyHours
    ELSE 0

\* The exact sum, as a fraction, over the first n work logs of actualHours *
\* effectiveCost / effectiveHours for the logs of the project whose week
\* starts in (year, month) and whose employee exists with positive hours.
RECURSIVE ClaimedLogged(_, _, _)
ClaimedLogged(n, year, month) ==
    IF n = 0 THEN <<0, 1>>
    ELSE LET l == ccWorkLogs[n]
             h == EffectiveHours(ccEmployees, l.employeeId, year, month)
         IN  RatAdd(ClaimedLogged(n - 1, year, month),
                    IF l.projectId = ccProject.id
                       /\ l.weekStartDate[1] = year /\ l.weekStartDate[2] = month + 1
                       /\ h > 0
                    THEN <<l.actualHours
                             * EffectiveCost(ccEmployees, l.employeeId, year, month), h>>
                    ELSE <<0, 1>>)

\* C22 (Actual cost formula), as claimed: getProjectActualCost is the floor of
\* the sum, over the work logs of this project whose weekStartDate lies in
\* the month, of actualHours * (effectiveCost / effectiveHours) of the log's
\* employee (rate 0 when the hours are 0); logs of other projects, of other
\* months and of absent employees add nothing.
C22_ActualCostFormula ==
    \A k \in 0..(Len(ccActual) - 1) :
        LET d == WindowDate(k)
            c == ClaimedLogged(Len(ccWorkLogs), d.y, d.m)
        IN  ccActual[k + 1] = c[1] \div c[2]

---------------------------------------------------------------------------
(* Further properties of getMonthlyRevenue, checked under SpecRevenue.     *)

\* Date strings "YYYY-MM-DD" in calendar order.
DateBefore(a, b) ==
    \/ a[1] < b[1]
    \/ a[1] = b[1] /\ a[2] < b[2]
    \/ a[1] = b[1] /\ a[2] = b[2] /\ a[3] < b[3]

\* A flow contract whose end date precedes its start date.
DegenerateFlow(p) ==
    /\ p.useFlow /\ p.flowStartDate # NoDate /\ p.flowEndDate # NoDate
    /\ DateBefore(p.flowEndDate, p.flowStartDate)

\* C23 (Degenerate flow dates), as claimed: when the flow end date precedes
\* the flow start date, the flow contract contributes zero revenue in every
\* month under the Duration and the Milestone method: every evaluated month
\* has the revenue of the same project without its flow contract.
C23_DegenerateFlowDates ==
    DegenerateFlow(rvProject) =>
        \A k \in 0..(Len(rvOut) - 1) :
            rvOut[k + 1] = getMonthlyRevenue([rvProject EXCEPT !.useFlow = FALSE],
                                             WindowDate(k))

---------------------------------------------------------------------------
(* Further properties of generateProjections, checked under SpecCalls and  *)
(* SpecProjection.                                                         *)

\* The array of a call: at most TermMonths records while the loop runs and
\* exactly TermMonths once it has returned, record i dated the first day of
\* the month i - 1 months after termStart.
ReturnedRecords ==
    /\ Len(gpData) <= TermMonths
    /\ gpReturned # <<>> => Len(gpReturned) = TermMonths
    /\ \A i \in Pushed :
          /\ gpData[i].date.d = 1 /\ gpData[i].date.t = 0
          /\ RecordMonth(i) = gpInput.termStart.y * 12 + gpInput.termStart.m + (i - 1)

\* The two calls run under the same today: every clock read of the second
\* call shows the instant the corresponding read of the first call showed.
SameToday ==
    LET readsOfCall == TermMonths * ReadsOfIteration(gpInput.projects) IN
    \A k \in 0..(readsOfCall - 1) :
        Now(gpInput.clock, readsOfCall + k) = Now(gpInput.clock, k)

\* Under the same today, every record the second call pushes is the record
\* the first call returned at that place: nothing the first call did, to its
\* arguments or to anything else, shows in the second.
SecondCallAgrees ==
    (gpReturned # <<>> /\ SameToday) => \A i \in Pushed : gpData[i] = gpReturned[i]

\* A step leaves the arguments as they were passed: projects, employees,
\* workLogs, settings and termStart.
ArgumentsKept ==
    /\ gpInput'.projects = gpInput.projects
    /\ gpInput'.employees = gpInput.employees
    /\ gpInput'.workLogs = gpInput.workLogs
    /\ gpInput'.settings = gpInput.settings
    /\ gpInput'.termStart = gpInput.termStart

\* C24 (Frame of generateProjections): exactly 12 records are returned,
\* record i being for the first day of the month i months after termStart
\* (i = 0..11, in order); projects, employees, workLogs and settings are left
\* unchanged by every step of a call; no state is kept between calls, and a
\* second call with equal inputs and the same today returns equal records.
C24_ProjectionFrame ==
    []ReturnedRecords /\ []SecondCallAgrees /\ [][ArgumentsKept]_vars

\* C24 witness: the term 2025 walked to the end a second time with the full
\* ledger and two projects, after a first call that moved the balance:
\* record 1 is December 2024, record 2 January 2025, record 12 November 2025,
\* and the twelve records are those of the first call.
C24_Witness ==
    /\ gpReturned # <<>>
    /\ SameToday
    /\ Len(gpData) = TermMonths
    /\ gpData[1].date = [y |-> 2024, m |-> 11, d |-> 1, t |-> 0]
    /\ gpData[2].date = [y |-> 2025, m |-> 0, d |-> 1, t |-> 0]
    /\ gpData[12].date = [y |-> 2025, m |-> 10, d |-> 1, t |-> 0]
    /\ Len(gpInput.projects) = 2
    /\ gpInput.settings.cashFlowItems = FullItems
    /\ gpReturned[12].cashBalance # gpInput.settings.initialCashBalance
    /\ gpData = gpReturned

\* C27 (Sales target), as claimed: the target of a record is the per-month
\* target stored under the record's "YYYY-MM" key whenever one is stored,
\* a stored 0 (what the target dialog saves for a month left un-entered)
\* included, and monthlySalesTarget only for a month with no stored target.
C27_SalesTarget ==
    \A i \in Pushed :
        LET key == <<gpData[i].date.y, gpData[i].date.m + 1>>
            stored == gpInput.settings.salesTargets
        IN  gpData[i].target = IF key \in DOMAIN stored THEN stored[key]
                               ELSE gpInput.settings.monthlySalesTarget

\* Project p without its flow contract: what remains is recognised as stock
\* and time-charge revenue.
WithoutFlow(p) == [p EXCEPT !.useFlow = FALSE]

\* C28 (Flow cash collected exactly once), as claimed: the flow amount of a
\* project enters cashIn through its start and end payments only, so the
\* cashIn of every record is the marked-up sum of the flow payments due in
\* the month and of the stock / time-charge revenue (the revenue of the
\* project without its flow contract) of stockDelay months earlier; flow
\* revenue is never collected a second time through the stock / time-charge
\* path.
C28_FlowCollectedOnce ==
    \A i \in Pushed :
        LET y == gpData[i].date.y
            m == gpData[i].date.m
            s100 == SumAll([j \in 1..Len(gpInput.projects) |->
                       FlowCashIn100(gpInput.projects[j], y, m)
                       + 100 * StockCashIn(WithoutFlow(gpInput.projects[j]), y, m)])
        IN  gpData[i].cashIn =
               FloorTax100(s100)
               - (IF ShortSum(gpInput.projects, y, m, s100) THEN 1 ELSE 0)

\* The cash events generateDailyCashFlow books for the month of its last
\* call: the project payments and the ledger items occurring in the month,
\* each with the day it is booked on.
MonthEvents ==
    LET date == IterationDate(gpInput.termStart, gpDaily.k) IN
    ProjectEvents(gpInput.projects, 1, date.y, date.m)
      \o ItemEvents(gpInput.settings.cashFlowItems, 1, date.y, date.m)

\* C29 (Daily ledger conservation), as claimed: generateDailyCashFlow
\* returns one record per day 1..N of the month, each balance is the opening
\* balance plus the changes up to that day, and every cash event of the
\* month, whatever its pay-day, is part of some day's change: the last
\* balance is the opening balance plus the signed sum of all events.
C29_DailyConservation ==
    gpDaily # <<>> =>
        LET rows == gpDaily.rows
            date == IterationDate(gpInput.termStart, gpDaily.k)
        IN  /\ Len(rows) = getTotalDays(date.y, date.m)
            /\ \A d \in 1..Len(rows) :
                  /\ rows[d].day = d
                  /\ rows[d].balance =
                        gpDaily.initialBalance
                        + SumAll([e \in 1..d |-> rows[e].change])
            /\ rows[Len(rows)].balance =
                  gpDaily.initialBalance
                  + SumAll([j \in 1..Len(MonthEvents) |-> MonthEvents[j][2]])

---------------------------------------------------------------------------
(* AppProvider (src/context/AppContext.tsx): the application data kept in  *)
(* React state, the handlers that edit it, and the two effects that load   *)
(* it from and save it to localStorage.                                    *)
(*                                                                         *)
(* A handler or effect reads the values of the render it belongs to        *)
(* (pvRender); a setter call stores the new value (pvState) and requests a *)
(* render; the render takes over the stored values and schedules the save  *)
(* effect, whose dependencies are all of them.  Employees are carried by   *)
(* [id, defaultMonthlyCost], projects by [id, flowAmount, assignments],    *)
(* settings by [monthlySalesTarget, initialCashBalance].                   *)

\* Number of handler calls followed after the mount.
MaxEdits == 3

\* Values of generateId(): Math.random based, so a value can come again.
GeneratedIds == {"g1", "g2"}

\* getInitialTerm() called by the first render
InitialTerm == 2025

\* getInitialTerm() called again by the load effect: the clock may have
\* passed the 1st of December since the first render.
TermsAtLoad == {InitialTerm, InitialTerm + 1}

DefaultSettings == [monthlySalesTarget |-> 5000000, initialCashBalance |-> 10000000]

SeedEmployees ==
    << [id |-> "1", defaultMonthlyCost |-> 600000],
       [id |-> "2", defaultMonthlyCost |-> 400000] >>

SeedProjects ==
    << [id |-> "101", flowAmount |-> 6000000,
        assignments |-> << [employeeId |-> "1", utilizationRate |-> 50] >>] >>

\* The values of the useState calls of the first render.
FirstRender ==
    [employees |-> <<>>, projects |-> <<>>, workLogs |-> <<>>,
     settings |-> DefaultSettings, currentTerm |-> InitialTerm, isLoaded |-> FALSE]

\* JSON.stringify / JSON.parse of plain data: the text carries the data.
Stringify(data) == <<"json", data>>
Parse(text) == text[2]

\* A work-log entry.
LogEntry(id, projectId, taskId, employeeId, weekStartDate, actualHours) ==
    [id |-> id, projectId |-> projectId, taskId |-> taskId, employeeId |-> employeeId,
     weekStartDate |-> weekStartDate, actualHours |-> actualHours]

\* What localStorage can hold at the mount: nothing; a snapshot saved by an
\* earlier session; a snapshot of an earlier version without projects,
\* work logs and term and with partial settings.
StoredTexts ==
    << <<>>,
       Stringify([employees |-> SeedEmployees,
                  projects |-> << [id |-> "101", flowAmount |-> 100,
                                   assignments |->
                                     << [employeeId |-> "1", utilizationRate |-> 50],
                                        [employeeId |-> "2", utilizationRate |-> 25] >>] >>,
                  workLogs |-> << LogEntry("w1", "101", "t1", "1", <<2025, 1, 6>>, 8),
                                  LogEntry("w2", "101", "t2", "1", <<2025, 1, 6>>, 4) >>,
                  settings |-> [monthlySalesTarget |-> 3000000, initialCashBalance |-> 0],
                  currentTerm |-> 2024]),
       Stringify([employees |-> << [id |-> "2", defaultMonthlyCost |-> 400000] >>,
                  settings |-> [monthlySalesTarget |-> 3000000]]) >>

\* parsed[name] || fallback
Field(parsed, name, fallback) ==
    IF name \in DOMAIN parsed THEN parsed[name] ELSE fallback

\* { ...defaultSettings, ...saved }
MergeSettings(saved) ==
    [k \in DOMAIN DefaultSettings |-> IF k \in DOMAIN saved THEN saved[k]
                                      ELSE DefaultSettings[k]]

\* getInitialTerm() is called by the load effect: nothing is stored, or the
\* stored snapshot holds no term.
ReadsTerm(savedData) ==
    savedData = <<>> \/ "currentTerm" \notin DOMAIN Parse(savedData)

\* The state after the setter calls of the load effect, `term` being the
\* value of getInitialTerm() at that time.
Loaded(state, savedData, term) ==
    IF savedData # <<>>
    THEN LET parsed == Parse(savedData) IN
         [employees |-> Field(parsed, "employees", <<>>),
          projects |-> Field(parsed, "projects", <<>>),
          workLogs |-> Field(parsed, "workLogs", <<>>),
          settings |-> IF "settings" \in DOMAIN parsed
                       THEN MergeSettings(parsed.settings) ELSE DefaultSettings,
          currentTerm |-> Field(parsed, "currentTerm", term),
          isLoaded |-> TRUE]
    ELSE [state EXCEPT !.employees = SeedEmployees, !.projects = SeedProjects,
                       !.currentTerm = term, !.isLoaded = TRUE]

\* dataToSave of a render
DataToSave(render) ==
    [employees |-> render.employees, projects |-> render.projects,
     workLogs |-> render.workLogs, settings |-> render.settings,
     currentTerm |-> render.currentTerm]

\* Variant of Saved without the isLoaded guard.
Saved_Unguarded(render, storage) == Stringify(DataToSave(render))

\* The stored text after the save effect of a render.
Saved(render, storage) ==
    IF render.isLoaded THEN Stringify(DataToSave(render)) ELSE storage

InitProvider ==
    /\ pvState = FirstRender
    /\ pvRender = FirstRender
    /\ pvEffects = <<"load", "save">>
    /\ pvDirty = FALSE
    /\ \E i \in 1..Len(StoredTexts) :
          /\ pvStorage = StoredTexts[i]
          /\ pvTrace = [op |-> "mount", arg |-> <<>>, edits |-> 0, writes |-> 0,
                        found |-> StoredTexts[i], term |-> InitialTerm]
    /\ IdleRevenue
    /\ IdleCost
    /\ IdleProjection
    /\ IdlePayment

engineVars == <<rvVars, ccVars, gpVars, pdVars>>

\* useEffect(() => { ...; setIsLoaded(true) }, [])
LoadEffect ==
    /\ pvEffects # <<>> /\ Head(pvEffects) = "load"
    /\ \E term \in (IF ReadsTerm(pvStorage) THEN TermsAtLoad ELSE {pvTrace.term}) :
          /\ pvState' = Loaded(pvState, pvStorage, term)
          /\ pvTrace' = [pvTrace EXCEPT !.term = term]
    /\ pvDirty' = TRUE
    /\ pvEffects' = Tail(pvEffects)
    /\ UNCHANGED <<pvRender, pvStorage, engineVars>>

\* useEffect(() => { if (isLoaded) localStorage.setItem(...) }, [...])
SaveEffect ==
    /\ pvEffects # <<>> /\ Head(pvEffects) = "save"
    /\ pvStorage' = Saved(pvRender, pvStorage)
    /\ pvTrace' = [pvTrace EXCEPT !.writes = IF pvRender.isLoaded THEN @ + 1 ELSE @]
    /\ pvEffects' = Tail(pvEffects)
    /\ UNCHANGED <<pvState, pvRender, pvDirty, engineVars>>

\* The render after a setter call: it closes over the stored values, and the
\* save effect is scheduled because a dependency changed.
Render ==
    /\ pvEffects = <<>> /\ pvDirty
    /\ pvRender' = pvState
    /\ pvDirty' = FALSE
    /\ pvEffects' = <<"save">>
    /\ UNCHANGED <<pvState, pvStorage, pvTrace, engineVars>>

\* A handler is called from an event of the rendered page, after the effects
\* of the render have run.
CanCall == pvEffects = <<>> /\ ~pvDirty /\ pvTrace.edits < MaxEdits

\* The handler `op` called with `arg` leaves `state`.
Called(op, arg, state) ==
    /\ pvState' = state
    /\ pvDirty' = TRUE
    /\ pvTrace' = [pvTrace EXCEPT !.op = op, !.arg = arg, !.edits = @ + 1]
    /\ UNCHANGED <<pvRender, pvEffects, pvStorage, engineVars>>

IdsOf(list) == { list[i].id : i \in 1..Len(list) }

\* list.filter(e => e[field] !== id)
RECURSIVE Without(_, _, _)
Without(list, field, id) ==
    IF list = <<>> THEN <<>>
    ELSE (IF Head(list)[field] # id THEN <<Head(list)>> ELSE <<>>)
         \o Without(Tail(list), field, id)

\* list.map(e => e.id === item.id ? item : e)
Replaced(list, item) ==
    [i \in 1..Len(list) |-> IF list[i].id = item.id THEN item ELSE list[i]]

\* The employee forms submitted.
EmployeeCosts == {500000}

addEmployee ==
    /\ CanCall
    /\ \E cost \in EmployeeCosts, id \in GeneratedIds :
          LET emp == [defaultMonthlyCost |-> cost] IN
          Called("addEmployee", emp,
                 [pvState EXCEPT !.employees =
                     Append(pvRender.employees,
                            [id |-> id, defaultMonthlyCost |-> emp.defaultMonthlyCost])])

updateEmployee ==
    /\ CanCall
    /\ \E id \in IdsOf(pvRender.employees), cost \in EmployeeCosts :
          LET emp == [id |-> id, defaultMonthlyCost |-> cost] IN
          Called("updateEmployee", emp,
                 [pvState EXCEPT !.employees = Replaced(pvRender.employees, emp)])

\* Variant of WithoutEmployee that leaves the assignments alone.
WithoutEmployee_Untouched(projects, id) == projects

\* projects.map(p => ({ ...p, assignments: p.assignments.filter(...) }))
WithoutEmployee(projects, id) ==
    [i \in 1..Len(projects) |->
        [projects[i] EXCEPT !.assignments = Without(@, "employeeId", id)]]

\* An id that no employee has.
AbsentId == "9"

deleteEmployee ==
    /\ CanCall
    /\ \E id \in (IdsOf(pvRender.employees) \cup {AbsentId}) :
          Called("deleteEmployee", [id |-> id],
                 [pvState EXCEPT
                     !.employees = Without(pvRender.employees, "id", id),
                     !.projects = WithoutEmployee(pvRender.projects, id)])

\* The ids of the list in the order of their first occurrence.
RECURSIVE DistinctIds(_)
DistinctIds(list) ==
    IF list = <<>> THEN <<>>
    ELSE <<Head(list).id>> \o DistinctIds(Without(Tail(list), "id", Head(list).id))

\* The assignments a project form can hold: the editor has one input per
\* employee shown; an input drops the entries of its employee id and pushes
\* one entry when the rate is above 0, so the form holds at most one entry
\* per employee id.  Taken here: none, the first employee alone, every
\* employee id.
AssignmentForms(employees) ==
    LET ids == DistinctIds(employees)
        entry(i) == [employeeId |-> ids[i], utilizationRate |-> 50]
    IN  { <<>> }
        \cup (IF employees = <<>> THEN {}
              ELSE { <<entry(1)>>, [i \in 1..Len(ids) |-> entry(i)] })

addProject ==
    /\ CanCall
    /\ \E assignments \in AssignmentForms(pvRender.employees), id \in GeneratedIds :
          LET proj == [flowAmount |-> 100, assignments |-> assignments] IN
          Called("addProject", proj,
                 [pvState EXCEPT !.projects =
                     Append(pvRender.projects,
                            [id |-> id, flowAmount |-> proj.flowAmount,
                             assignments |-> proj.assignments])])

updateProject ==
    /\ CanCall
    /\ \E id \in IdsOf(pvRender.projects),
          assignments \in AssignmentForms(pvRender.employees) :
          LET proj == [id |-> id, flowAmount |-> 100, assignments |-> assignments] IN
          Called("updateProject", proj,
                 [pvState EXCEPT !.projects = Replaced(pvRender.projects, proj)])

deleteProject ==
    /\ CanCall
    /\ \E id \in IdsOf(pvRender.projects) :
          Called("deleteProject", [id |-> id],
                 [pvState EXCEPT !.projects = Without(pvRender.projects, "id", id)])

\* Variant of FindLog that does not compare the task.
RECURSIVE FindLog_IgnoringTask(_, _, _)
FindLog_IgnoringTask(workLogs, log, i) ==
    IF i > Len(workLogs) THEN 0
    ELSE IF /\ workLogs[i].projectId = log.projectId
            /\ workLogs[i].employeeId = log.employeeId
            /\ workLogs[i].weekStartDate = log.weekStartDate
         THEN i
         ELSE FindLog_IgnoringTask(workLogs, log, i + 1)

\* workLogs.findIndex(l => same projectId, taskId, employeeId and
\* weekStartDate), 0 when there is none
RECURSIVE FindLog(_, _, _)
FindLog(workLogs, log, i) ==
    IF i > Len(workLogs) THEN 0
    ELSE IF /\ workLogs[i].projectId = log.projectId
            /\ workLogs[i].taskId = log.taskId
            /\ workLogs[i].employeeId = log.employeeId
            /\ workLogs[i].weekStartDate = log.weekStartDate
         THEN i
         ELSE FindLog(workLogs, log, i + 1)

\* The work logs after updateWorkLog(log), `id` being the generated id.
LogsAfter(workLogs, log, id) ==
    LET existingIndex == FindLog(workLogs, log, 1) IN
    IF existingIndex >= 1
    THEN [workLogs EXCEPT ![existingIndex].actualHours = log.actualHours]
    ELSE Append(workLogs, [log EXCEPT !.id = id])

\* The logs entered in the resource-planning grid: the cell of a task, an
\* employee and a week, with the id of the entry shown in the cell.
LogInputs(workLogs) ==
    { LogEntry(IF FindLog(workLogs, cell, 1) >= 1
               THEN workLogs[FindLog(workLogs, cell, 1)].id ELSE "",
               cell.projectId, cell.taskId, cell.employeeId, cell.weekStartDate,
               hours) :
        cell \in [projectId : {"101"}, taskId : {"t1", "t2"}, employeeId : {"1"},
                  weekStartDate : { <<2025, 1, 6>> }],
        hours \in {0, 8} }

updateWorkLog ==
    /\ CanCall
    /\ \E log \in LogInputs(pvRender.workLogs), id \in GeneratedIds :
          Called("updateWorkLog", log,
                 [pvState EXCEPT !.workLogs = LogsAfter(pvRender.workLogs, log, id)])

updateSettings ==
    /\ CanCall
    /\ \E target \in {4000000} :
          LET newSettings == [pvRender.settings EXCEPT !.monthlySalesTarget = target] IN
          Called("updateSettings", newSettings, [pvState EXCEPT !.settings = newSettings])

\* The terms offered by the term selector of the page header.
TermOptions(currentTerm) ==
    LET baseYear == 2025
        minYear == IF baseYear < currentTerm - 1 THEN baseYear ELSE currentTerm - 1
        maxYear == IF baseYear + 3 > currentTerm + 1 THEN baseYear + 3 ELSE currentTerm + 1
    IN  minYear..maxYear

\* setCurrentTerm(Number(e.target.value)), called when another term is
\* selected.
setCurrentTerm ==
    /\ CanCall
    /\ \E term \in (TermOptions(pvRender.currentTerm) \ {pvRender.currentTerm}) :
          Called("setCurrentTerm", term, [pvState EXCEPT !.currentTerm = term])

NextProvider ==
    \/ LoadEffect
    \/ SaveEffect
    \/ Render
    \/ addEmployee
    \/ updateEmployee
    \/ deleteEmployee
    \/ addProject
    \/ updateProject
    \/ deleteProject
    \/ updateWorkLog
    \/ updateSettings
    \/ setCurrentTerm

SpecProvider == InitProvider /\ [][NextProvider]_vars

---------------------------------------------------------------------------
(* Properties of the provider, checked under SpecProvider.                 *)

\* The latest step was a call of the handler `op`.
CallOf(op) == pvTrace'.edits = pvTrace.edits + 1 /\ pvTrace'.op = op

\* Every assignment of every project names an employee of the collection.
AssignmentsReferToEmployees ==
    \A i \in 1..Len(pvState.projects) :
        \A j \in 1..Len(pvState.projects[i].assignments) :
            pvState.projects[i].assignments[j].employeeId \in IdsOf(pvState.employees)

\* deleteEmployee(id) leaves no employee and no assignment with that id and
\* changes nothing else: the other employees and the other assignments stay,
\* in order, and so do the projects' other fields, the work logs, the
\* settings and the term.
DeleteCascades ==
    CallOf("deleteEmployee") =>
        LET id == pvTrace'.arg.id IN
        /\ id \notin IdsOf(pvState'.employees)
        /\ pvState'.employees = SelectSeq(pvState.employees, LAMBDA e : e.id # id)
        /\ Len(pvState'.projects) = Len(pvState.projects)
        /\ \A i \in 1..Len(pvState.projects) :
              /\ \A j \in 1..Len(pvState'.projects[i].assignments) :
                    pvState'.projects[i].assignments[j].employeeId # id
              /\ pvState'.projects[i] =
                    [pvState.projects[i] EXCEPT !.assignments =
                        SelectSeq(@, LAMBDA a : a.employeeId # id)]
        /\ pvState'.workLogs = pvState.workLogs
        /\ pvState'.settings = pvState.settings
        /\ pvState'.currentTerm = pvState.currentTerm

\* C25 (Employee deletion cascade): after deleteEmployee(id) the employee is
\* absent, no project holds an assignment with that employeeId, and
\* everything else is unchanged; and in every state reached by addEmployee,
\* updateEmployee, deleteEmployee and project saves whose assignments name
\* only employees present, every assignment names an existing employee.
C25_DeletionCascade == []AssignmentsReferToEmployees /\ [][DeleteCascades]_vars

\* C25 witness: employee "1" deleted from the stored snapshot whose project
\* is assigned to "1" and "2": employee "2" and its assignment remain, and so
\* do the two work logs of employee "1".
C25_Witness ==
    /\ pvTrace # <<>> /\ pvTrace.op = "deleteEmployee" /\ pvTrace.arg.id = "1"
    /\ pvTrace.edits = 1
    /\ IdsOf(pvState.employees) = {"2"}
    /\ Len(pvState.projects) = 1
    /\ pvState.projects[1].assignments = << [employeeId |-> "2", utilizationRate |-> 25] >>
    /\ Len(pvState.workLogs) = 2

\* The key of a work-log entry.
LogKey(l) == <<l.projectId, l.taskId, l.employeeId, l.weekStartDate>>

\* At most one work-log entry per key.
UniqueLogKeys ==
    \A i, j \in 1..Len(pvState.workLogs) :
        LogKey(pvState.workLogs[i]) = LogKey(pvState.workLogs[j]) => i = j

\* updateWorkLog(log): when an entry with the key of `log` exists, only its
\* actualHours change, its id and place staying; otherwise exactly one entry
\* with the key and hours of `log` is appended; every other entry, and the
\* rest of the data, is unchanged.
UpdateReplacesOrAppends ==
    CallOf("updateWorkLog") =>
        LET log == pvTrace'.arg
            old == pvState.workLogs
            new == pvState'.workLogs
            hit == { i \in 1..Len(old) : LogKey(old[i]) = LogKey(log) }
        IN  /\ IF hit # {}
               THEN /\ Len(new) = Len(old)
                    /\ \A i \in 1..Len(old) :
                          new[i] = IF i \in hit
                                   THEN [old[i] EXCEPT !.actualHours = log.actualHours]
                                   ELSE old[i]
               ELSE /\ Len(new) = Len(old) + 1
                    /\ SubSeq(new, 1, Len(old)) = old
                    /\ LogKey(new[Len(new)]) = LogKey(log)
                    /\ new[Len(new)].actualHours = log.actualHours
            /\ pvState'.employees = pvState.employees
            /\ pvState'.projects = pvState.projects
            /\ pvState'.settings = pvState.settings

\* C26 (Work-log uniqueness): after any sequence of updateWorkLog calls,
\* each applied to the current state, the work logs hold at most one entry
\* per (projectId, taskId, employeeId, weekStartDate); a call with an
\* existing key replaces only that entry's actualHours, keeping its id and
\* position, a call with a new key appends exactly one entry, and all other
\* entries are unchanged.
C26_WorkLogUniqueness == []UniqueLogKeys /\ [][UpdateReplacesOrAppends]_vars

\* C26 witness: started from the seed data, hours entered for task t1, then
\* for task t2, then the hours of t1 set to 0: two entries, the first still
\* that of t1 under its generated id, now with 0 hours.
C26_Witness ==
    /\ pvTrace # <<>> /\ pvTrace.op = "updateWorkLog" /\ pvTrace.edits = 3
    /\ pvTrace.found = <<>>
    /\ pvTrace.arg.taskId = "t1" /\ pvTrace.arg.actualHours = 0
    /\ Len(pvState.workLogs) = 2
    /\ pvState.workLogs[1].taskId = "t1" /\ pvState.workLogs[1].actualHours = 0
    /\ pvState.workLogs[1].id \in GeneratedIds
    /\ pvState.workLogs[2].taskId = "t2" /\ pvState.workLogs[2].actualHours = 8

\* The data the load step leaves for the text found at the mount: the seed
\* data when nothing was stored, otherwise the stored collections (a missing
\* one is empty), the stored settings over the default settings and the
\* stored term; without a stored term, the term the load step computed.
LoadedData ==
    LET found == pvTrace.found IN
    IF found = <<>>
    THEN [employees |-> SeedEmployees, projects |-> SeedProjects, workLogs |-> <<>>,
          settings |-> DefaultSettings, currentTerm |-> pvTrace.term]
    ELSE LET f == found[2] IN
         [employees |-> IF "employees" \in DOMAIN f THEN f.employees ELSE <<>>,
          projects |-> IF "projects" \in DOMAIN f THEN f.projects ELSE <<>>,
          workLogs |-> IF "workLogs" \in DOMAIN f THEN f.workLogs ELSE <<>>,
          settings |->
             [monthlySalesTarget |->
                 IF "settings" \in DOMAIN f /\ "monthlySalesTarget" \in DOMAIN f.settings
                 THEN f.settings.monthlySalesTarget
                 ELSE DefaultSettings.monthlySalesTarget,
              initialCashBalance |->
                 IF "settings" \in DOMAIN f /\ "initialCashBalance" \in DOMAIN f.settings
                 THEN f.settings.initialCashBalance
                 ELSE DefaultSettings.initialCashBalance],
          currentTerm |-> IF "currentTerm" \in DOMAIN f THEN f.currentTerm
                          ELSE pvTrace.term]

\* Until the load step has run the stored text is the one found at the
\* mount; from the first write until the first edit it holds the loaded data.
StoredFollowsLoad ==
    pvTrace # <<>> =>
        /\ ~pvState.isLoaded => (pvStorage = pvTrace.found /\ pvTrace.writes = 0)
        /\ (pvTrace.writes > 0 /\ pvTrace.edits = 0) => pvStorage = <<"json", LoadedData>>

\* A step that calls setItem belongs to a render made after the load step
\* and stores the data of that render.
WritesAfterLoad ==
    (pvStorage' # pvStorage \/ pvTrace'.writes # pvTrace.writes) =>
        /\ pvState.isLoaded /\ pvRender.isLoaded
        /\ pvStorage'[2].employees = pvRender.employees
        /\ pvStorage'[2].projects = pvRender.projects
        /\ pvStorage'[2].workLogs = pvRender.workLogs
        /\ pvStorage'[2].settings = pvRender.settings
        /\ pvStorage'[2].currentTerm = pvRender.currentTerm

\* C30 (Persistence ordering): no write of the stored snapshot happens
\* before the initial load step has completed, and once loaded the state
\* written is the state that was loaded (the seed data when no snapshot
\* existed) until an edit changes it.
C30_PersistenceOrdering == []StoredFollowsLoad /\ [][WritesAfterLoad]_vars

\* C30 witness: mounted over a snapshot that holds one employee and a
\* partial settings object, the load step running after the term changed;
\* the first write stores that employee, no projects and work logs, the
\* stored target over the default balance, and the term of the load step.
C30_Witness ==
    /\ pvTrace # <<>> /\ pvTrace.writes = 1 /\ pvTrace.edits = 0
    /\ pvTrace.found = StoredTexts[3]
    /\ pvStorage # pvTrace.found
    /\ pvStorage[2].employees = << [id |-> "2", defaultMonthlyCost |-> 400000] >>
    /\ pvStorage[2].projects = <<>>
    /\ pvStorage[2].settings.monthlySalesTarget = 3000000
    /\ pvStorage[2].settings.initialCashBalance = 10000000
    /\ pvTrace.term = InitialTerm + 1
    /\ pvStorage[2].currentTerm = InitialTerm + 1

====
